---------------------------- MODULE Spec2Model ----------------------------
(***************************************************************************)
(* A model of centimani: the client connection pool                       *)
(* (centimani/client/manager.py, centimani/client/http1.py), the HTTP/1   *)
(* server pipeline (centimani/server/http1.py) and the HPACK codec        *)
(* (centimani/http2/hpack.py).  Each subsystem has its own specification  *)
(* (SpecPool, SpecServer, SpecHpack, SpecContext); the variables of the   *)
(* other subsystems are frozen at their initial values.                   *)
(***************************************************************************)
EXTENDS Integers, Sequences, FiniteSets, TLC

(***************************************************************************)
(* Bounds of the model.                                                    *)
(***************************************************************************)
NumTasks == 2          \* concurrent callers of ConnectionManager.fetch
MaxEndpoint == 1       \* largest max_endpoint_connections tried
MaxConns == 2          \* connection objects alive at one time
MaxTime == 1           \* ticks of the loop clock
MaxExchanges == 2      \* requests read on one server connection
MaxBody == 1           \* largest request body, in blocks
MaxHandlerSteps == 2   \* steps a request handler takes in one exchange
MaxCloses == 2         \* calls of ConnectionManager.close
MaxBuffer == 4         \* most bytes fed to a StreamReader and not yet read
MaxFeed == 3           \* most bytes given to one call of StreamReader.feed
MaxFields == 2         \* header fields in one HPACK header block
MaxTable == 80         \* largest HPACK dynamic table size limit, in bytes
MaxInt == 20           \* every integer up to it is given to _encode_int
MaxBits == 20          \* and the integers next to each power of two up to 2^MaxBits
MaxString == 3         \* longest byte string given to huffman.encode

Tasks == 1..NumTasks
Keys == {"a"}
ConnIds == 1..MaxConns
\* A bucket list is alive while the map holds it or a suspended connect does.
BucketIds == 1..(NumTasks + 1)

VARIABLES
    \* ---- client pool ----
    maxEndpoint,     \* ConnectionManager._max_endpoint_connections, 0 = None
    semaphores,      \* ConnectionManager._semaphores: key -> free permits
    connections,     \* ConnectionManager._connections: key -> bucket id, 0 = no entry
    buckets,         \* the bucket lists: bucket id -> sequence of connection ids
    conn,            \* connection id -> its fields
    now,             \* loop.time()
    task,            \* caller -> its position in Manager.fetch and its locals
    cleanup_task,    \* ConnectionManager._cleanup_task: "pending" or "cancelled"
    shutdown,        \* the calls of ConnectionManager.close and what the last raised
    permanent_redirects, \* ConnectionManager._permanent_redirects: url -> location, "" = no entry
    \* ---- server connection (Http1Connection and its Http1Transport) ----
    spc,             \* position of Http1Connection.run / Http1Transport.run
    keep_alive,      \* Http1Transport.keep_alive
    request,         \* Http1Transport.request, with what the peer sent
    body_reader,     \* Http1Transport.body_reader
    response,        \* Http1Transport.response: 0 = None, else its status
    exc,             \* the exception travelling up, "none" if none
    sent,            \* statuses written to the writer during this call of run
    inbuf,           \* bytes of the reader not yet consumed, in blocks
    lost,            \* connection_lost was called with an exception
    hsteps,          \* steps the handler has taken in this exchange
    nread,           \* header blocks the peer has sent on this connection
    header,          \* the header block receive_request read in this exchange
    \* ---- HPACK (HpackEncoder, HpackDecoder and their HpackContext) ----
    encoder,         \* the HpackContext of the encoder
    decoder,         \* the HpackContext of the decoder
    headers,         \* the header fields given to encode in this block
    evicted,         \* entries the encoder's context dropped in this block
    kinds,           \* the representation of each field of this block
    wire,            \* the bytes encoded and not yet decoded
    decoded,         \* the header fields the decoder yielded for the block
    raised,          \* the exception of the last HPACK call, "none" if none
    \* ---- one call of a coding function and of its inverse ----
    cpc,             \* "idle", "input", "encoded" or "decoded"
    cin,             \* the arguments of the call
    cdata,           \* the bytes the coding function returned
    cout,            \* what the inverse returned for them
    \* ---- one StreamReader and the coroutine that reads from it ----
    buffer,          \* StreamReader._buffer
    fed_eof,         \* StreamReader._eof
    pending,         \* StreamReader._pending: the parameter and its event
    reading,         \* the reading coroutine: "idle" or "waiting" in _wait
    data_read        \* what the last call of read_until returned

poolVars == <<maxEndpoint, semaphores, connections,
              buckets, conn, now, task, cleanup_task, shutdown,
              permanent_redirects>>

serverVars == <<spc, keep_alive, request, body_reader, response, exc, sent,
                inbuf, lost, hsteps, nread, header>>

hpackVars == <<encoder, decoder, headers, evicted, kinds, wire, decoded,
               raised>>

codecVars == <<cpc, cin, cdata, cout>>

streamVars == <<buffer, fed_eof, pending, reading, data_read>>

vars == <<poolVars, serverVars, hpackVars, codecVars, streamVars>>

----------------------------------------------------------------------------
(***************************************************************************)
(* Client pool: ConnectionManager and the client Http1Connection.          *)
(***************************************************************************)

NoConn == [key |-> "", open |-> FALSE, closing |-> FALSE, locked |-> FALSE,
           last |-> 0]

\* error is what the last call of fetch raised to its caller; redirects is
\* request.redirect_count, status and location are those of the response
\* being followed, requests counts the calls of connection.fetch.
IdleTask == [pc |-> "idle", key |-> "", conn |-> 0, bucket |-> 0,
             error |-> "none", redirects |-> 0, requests |-> 0,
             status |-> 0, location |-> FALSE]

\* fetch raises error to its caller
Raised(error) == [IdleTask EXCEPT !.error = error]

\* ConnectionManager.__init__: connection_timeout=30 (seconds),
\* keep_alive_timeout (here in ticks of the loop clock).
connection_timeout == 30
keep_alive_timeout == 0
max_redirections == 1

\* ConnectionManager._default_semaphore: a BoundedSemaphore of
\* max_endpoint_connections permits, or None.
Bounded == maxEndpoint # 0

default_semaphore == maxEndpoint

\* Connection.is_closing: the writer is closing.
is_closing(c) == conn[c].closing

is_available_IgnoresLock(c) == ~is_closing(c)

\* Http1Connection.is_available: not closing and not locked.
is_available(c) ==
    IF ~is_closing(c) THEN ~conn[c].locked ELSE FALSE

CanAcquire_NoWait(k) == TRUE

\* Semaphore.acquire returns without waiting when a permit is free.
CanAcquire(k) == Bounded => semaphores[k] > 0

acquire(sems, k) ==
    IF Bounded THEN [sems EXCEPT ![k] = @ - 1] ELSE sems

release_Nothing(sems, k) == sems

\* semaphore.release(), when there is a semaphore
release(sems, k) ==
    IF Bounded THEN [sems EXCEPT ![k] = @ + 1] ELSE sems

\* self._connections[key] on a defaultdict(list): the bucket of the key,
\* created empty when the key has no entry.
HasBucket(k) == connections[k] # 0

\* A list object no longer referenced is garbage; a new list takes the
\* smallest identifier not in use.
BucketInUse(b) ==
    \/ \E k \in Keys : connections[k] = b
    \/ \E t \in Tasks : task[t].pc = "opening" /\ task[t].bucket = b

NewBucket == CHOOSE b \in BucketIds :
                /\ ~BucketInUse(b)
                /\ \A b2 \in BucketIds : ~BucketInUse(b2) => b <= b2

BucketOf(k) == IF HasBucket(k) THEN connections[k] ELSE NewBucket

GetBucket(k) ==
    /\ connections' = [connections EXCEPT ![k] = BucketOf(k)]
    /\ UNCHANGED buckets

\* A connection object is alive while it is open, locked by a fetch or
\* listed in a bucket of the map; otherwise it is garbage.
InMap(c) ==
    \E k \in Keys : /\ HasBucket(k)
                    /\ \E i \in 1..Len(buckets[connections[k]]) :
                          buckets[connections[k]][i] = c

FreeConns == {c \in ConnIds : ~conn[c].open}

NewConn == CHOOSE c \in FreeConns : \A c2 \in FreeConns : c <= c2

Opening == {t \in Tasks : task[t].pc = "opening"}

\* [c for c in connections if c.is_available], in bucket order.
available_connections(k) ==
    IF HasBucket(k)
    THEN SelectSeq(buckets[connections[k]], LAMBDA c : is_available(c))
    ELSE <<>>

LeastActive_First(avail) == avail[1]

\* available_connections.sort(key=last_activity)[0]: the sort is stable, so
\* the first connection of the bucket among those of smallest last_activity.
LeastActive(avail) ==
    LET idx == CHOOSE i \in 1..Len(avail) :
                 /\ \A j \in 1..Len(avail) : conn[avail[i]].last <= conn[avail[j]].last
                 /\ \A j \in 1..(i - 1) : conn[avail[j]].last > conn[avail[i]].last
    IN avail[idx]

\* The last_activity of a closing connection is read by nobody: it is not
\* kept.
Closed(r) == IF r.closing THEN [r EXCEPT !.last = 0] ELSE r

\* Http1Connection.lock: asserts the connection is not locked.
LockAssertOk(c) == ~conn[c].locked

PoolInit ==
    /\ maxEndpoint \in 0..MaxEndpoint
    /\ semaphores = [k \in Keys |-> default_semaphore]
    /\ connections = [k \in Keys |-> 0]
    /\ buckets = [b \in BucketIds |-> <<>>]
    /\ conn = [c \in ConnIds |-> NoConn]
    /\ now = 0
    /\ task = [t \in Tasks |-> IdleTask]
    /\ cleanup_task = "pending"
    /\ shutdown = [calls |-> 0, error |-> "none"]
    /\ permanent_redirects = [k \in Keys |-> ""]

\* What no step of the pool changes: its configuration, and the rest.
Configuration ==
    UNCHANGED <<maxEndpoint, serverVars, hpackVars, codecVars, streamVars>>

\* What only ConnectionManager.close and a followed redirection change.
PoolFrame ==
    Configuration /\ UNCHANGED <<cleanup_task, shutdown, permanent_redirects>>

\* ConnectionManager.fetch is called: the request names its endpoint;
\* connect starts and waits for a permit.
StartFetch(t) ==
    /\ task[t].pc = "idle"
    /\ \E k \in Keys :
         task' = [task EXCEPT ![t] = [IdleTask EXCEPT !.pc = "acquire", !.key = k]]
    /\ PoolFrame
    /\ UNCHANGED <<semaphores, connections, buckets, conn, now>>

\* connect, from the permit to the return, when a connection is available:
\* the least active one is locked and touched, and Http1Connection.fetch
\* starts on it.
ConnectReuse(t) ==
    LET k == task[t].key
        avail == available_connections(k)
    IN /\ task[t].pc = "acquire"
       /\ CanAcquire(k)
       /\ avail # <<>>
       /\ LET c == LeastActive(avail)
          IN /\ semaphores' = acquire(semaphores, k)
             /\ GetBucket(k)
             /\ IF LockAssertOk(c)
                THEN /\ conn' = [conn EXCEPT ![c].locked = TRUE, ![c].last = now]
                     /\ task' = [task EXCEPT ![t].pc = "fetching", ![t].conn = c,
                                             ![t].requests = @ + 1]
                ELSE /\ conn' = conn
                     /\ task' = [task EXCEPT ![t].pc = "assert_failed", ![t].conn = c]
       /\ PoolFrame
       /\ UNCHANGED now

\* connect when no connection is available: it keeps the bucket list it
\* looked at and suspends in open_connection.
ConnectOpen(t) ==
    LET k == task[t].key
    IN /\ task[t].pc = "acquire"
       /\ CanAcquire(k)
       /\ available_connections(k) = <<>>
       /\ Cardinality(FreeConns) > Cardinality(Opening)
       /\ semaphores' = acquire(semaphores, k)
       /\ GetBucket(k)
       /\ task' = [task EXCEPT ![t].pc = "opening", ![t].bucket = BucketOf(k)]
       /\ PoolFrame
       /\ UNCHANGED <<conn, now>>

\* connection_timeout expires while connect waits for a permit: the
\* acquire is cancelled and fetch raises ClientTimeoutError.
AcquireTimeout(t) ==
    /\ task[t].pc = "acquire"
    /\ connection_timeout # 0
    /\ task' = [task EXCEPT ![t] = Raised("ClientTimeoutError")]
    /\ PoolFrame
    /\ UNCHANGED <<semaphores, connections, buckets, conn, now>>

\* open_connection returns: the new connection is locked, appended to the
\* list connect kept, touched, and Http1Connection.fetch starts on it.
OpenOk(t) ==
    LET c == NewConn
        b == task[t].bucket
    IN /\ task[t].pc = "opening"
       /\ conn' = [conn EXCEPT ![c] = [key |-> task[t].key, open |-> TRUE,
                                       closing |-> FALSE, locked |-> TRUE,
                                       last |-> now]]
       \* connections.append(connection): a list the map no longer holds
       \* is read by nobody afterwards, its content is not kept.
       /\ buckets' = [buckets EXCEPT ![b] =
                         IF connections[task[t].key] = b THEN Append(@, c) ELSE @]
       /\ task' = [task EXCEPT ![t].pc = "fetching", ![t].conn = c,
                               ![t].requests = @ + 1]
       /\ PoolFrame
       /\ UNCHANGED <<semaphores, connections, now>>

\* semaphore.release() in the except clause of connect: with a semaphore
\* the ConnectionError is re-raised and Manager.fetch turns it into
\* ClientConnectionError; None has no release, the AttributeError raised
\* in the except clause is no ConnectionError and leaves fetch as it is.
release_error == IF Bounded THEN "ClientConnectionError" ELSE "AttributeError"

\* open_connection raises ConnectionError: connect releases the semaphore
\* and re-raises.  With no semaphore (None) the release itself raises.
OpenFail(t) ==
    /\ task[t].pc = "opening"
    /\ semaphores' = release(semaphores, task[t].key)
    /\ task' = [task EXCEPT ![t] = Raised(release_error)]
    /\ PoolFrame
    /\ UNCHANGED <<connections, buckets, conn, now>>

\* connection_timeout expires while open_connection is pending: wait_for
\* cancels connect; the CancelledError is no ConnectionError, so the
\* except clause of connect does not run.
OpenTimeout(t) ==
    /\ task[t].pc = "opening"
    /\ connection_timeout # 0
    /\ task' = [task EXCEPT ![t] = Raised("ClientTimeoutError")]
    /\ PoolFrame
    /\ UNCHANGED <<semaphores, connections, buckets, conn, now>>

\* The finally clause of Http1Connection.fetch: release the semaphore given
\* to lock, clear the locked flag.  after is the caller afterwards.
FetchFinally(t, closeIt, touchIt, after) ==
    LET c == task[t].conn
    IN /\ semaphores' = release(semaphores, conn[c].key)
       /\ conn' = [conn EXCEPT ![c] =
                      IF (conn[c].closing \/ closeIt) /\ ~InMap(c)
                      THEN NoConn
                      ELSE Closed([@ EXCEPT !.locked = FALSE,
                                            !.closing = @ \/ closeIt,
                                            !.last = IF touchIt THEN now ELSE @])]
       /\ task' = [task EXCEPT ![t] = after]

\* The statuses of the responses: one that is no redirection, the four
\* that are followed, and a redirection that is not.
Statuses == {200, 301, 302, 303, 307, 308}

follows_Always(status, location, redirect_count) ==
    status \in {301, 302, 307, 308} /\ location

\* Manager.fetch, automatic redirection: the three tests
follows(status, location, redirect_count) ==
    /\ status \in {301, 302, 307, 308}
    /\ redirect_count < max_redirections
    /\ location

\* Manager.fetch: the statuses whose redirection is added to
\* _permanent_redirects.
permanent(status) == status \in {302, 308}

\* _fetch returns a response (with connection: close the writer is closed);
\* Manager.fetch touches the connection, then either returns the response
\* or sets request.url to the location, counts the redirection and calls
\* itself.
FetchOk(t) ==
    /\ task[t].pc = "fetching"
    /\ \E close \in BOOLEAN, status \in Statuses, location \in BOOLEAN, k \in Keys :
         /\ FetchFinally(t, close, TRUE,
                      IF follows(status, location, task[t].redirects)
                      THEN [IdleTask EXCEPT !.pc = "acquire", !.key = k,
                                            !.redirects = task[t].redirects + 1,
                                            !.requests = task[t].requests,
                                            !.status = status,
                                            !.location = location]
                      ELSE IdleTask)
         /\ permanent_redirects' =
               IF follows(status, location, task[t].redirects) /\ permanent(status)
               THEN [permanent_redirects EXCEPT ![task[t].key] = k]
               ELSE permanent_redirects
    /\ Configuration
    /\ UNCHANGED <<cleanup_task, shutdown>>
    /\ UNCHANGED <<connections, buckets, now>>

\* _fetch raises ConnectionError: the connection is closed.
FetchConnError(t) ==
    /\ task[t].pc = "fetching"
    /\ FetchFinally(t, TRUE, FALSE, Raised("ClientConnectionError"))
    /\ PoolFrame
    /\ UNCHANGED <<connections, buckets, now>>

FetchTimeout_NoClose(t) ==
    /\ task[t].pc = "fetching"
    /\ FetchFinally(t, FALSE, FALSE, Raised("ClientTimeoutError"))
    /\ PoolFrame
    /\ UNCHANGED <<connections, buckets, now>>

\* The request has a timeout and it expires: the connection is closed.
FetchTimeout(t) ==
    /\ task[t].pc = "fetching"
    /\ FetchFinally(t, TRUE, FALSE, Raised("ClientTimeoutError"))
    /\ PoolFrame
    /\ UNCHANGED <<connections, buckets, now>>

\* _fetch reads no status line: it closes the connection and raises
\* EOFError, which no except clause of fetch catches.
FetchEof(t) ==
    /\ task[t].pc = "fetching"
    /\ FetchFinally(t, TRUE, FALSE, Raised("EOFError"))
    /\ PoolFrame
    /\ UNCHANGED <<connections, buckets, now>>

\* _fetch raises anything else (a malformed status line, a bad header, a
\* chunk with a wrong size): only the finally clause runs.
FetchError(t) ==
    /\ task[t].pc = "fetching"
    /\ FetchFinally(t, FALSE, FALSE, Raised("Exception"))
    /\ PoolFrame
    /\ UNCHANGED <<connections, buckets, now>>

\* _cleanup_endpoint on a bucket list: close the connections idle for more
\* than keep_alive_timeout, then remove the closing ones.
TimedOut_Inclusive(c) ==
    ~is_closing(c) /\ now - conn[c].last >= keep_alive_timeout

TimedOut(c) == ~is_closing(c) /\ now - conn[c].last > keep_alive_timeout

cleanup_conn(c) ==
    IF InMap(c)
    THEN IF (conn[c].closing \/ TimedOut(c)) /\ ~conn[c].locked
         THEN NoConn
         ELSE Closed([conn[c] EXCEPT !.closing = @ \/ TimedOut(c)])
    ELSE conn[c]

cleanup_endpoint(lst) ==
    SelectSeq(lst, LAMBDA c : ~(conn[c].closing \/ TimedOut(c)))

\* One pass of _cleanup: every endpoint is cleaned, then the keys whose
\* list is empty are deleted from the map.
Cleanup ==
    /\ cleanup_task = "pending"
    /\ conn' = [c \in ConnIds |-> cleanup_conn(c)]
    /\ buckets' = [b \in BucketIds |->
                     IF \E k \in Keys : connections[k] = b
                     THEN cleanup_endpoint(buckets[b]) ELSE <<>>]
    /\ connections' = [k \in Keys |->
                         IF HasBucket(k) /\ cleanup_endpoint(buckets[connections[k]]) = <<>>
                         THEN 0 ELSE connections[k]]
    /\ PoolFrame
    /\ UNCHANGED <<semaphores, now, task>>

connections_to_close_All == {c \in ConnIds : InMap(c)}

\* ConnectionManager.close: the connections of the lists of the map that
\* are not closing.
connections_to_close == {c \in ConnIds : InMap(c) /\ ~is_closing(c)}

\* ConnectionManager.close: the cleanup task is cancelled (it is suspended
\* in its sleep and is not resumed), then Connection.close is called on
\* each connection to close; it asserts that the connection is not
\* closing.
Close ==
    /\ shutdown.calls < MaxCloses
    /\ cleanup_task' = "cancelled"
    /\ conn' = [c \in ConnIds |->
                  IF c \in connections_to_close /\ ~is_closing(c)
                  THEN Closed([conn[c] EXCEPT !.closing = TRUE])
                  ELSE conn[c]]
    /\ shutdown' = [calls |-> shutdown.calls + 1,
                    error |-> IF \E c \in connections_to_close : is_closing(c)
                              THEN "AssertionError" ELSE "none"]
    /\ Configuration
    /\ UNCHANGED <<semaphores, connections, buckets, now, task,
                   permanent_redirects>>

\* The loop clock advances.
Tick ==
    /\ now < MaxTime
    /\ now' = now + 1
    /\ PoolFrame
    /\ UNCHANGED <<semaphores, connections, buckets, conn, task>>

PoolNext ==
    \/ \E t \in Tasks : StartFetch(t)
    \/ \E t \in Tasks : ConnectReuse(t)
    \/ \E t \in Tasks : ConnectOpen(t)
    \/ \E t \in Tasks : AcquireTimeout(t)
    \/ \E t \in Tasks : OpenOk(t)
    \/ \E t \in Tasks : OpenFail(t)
    \/ \E t \in Tasks : OpenTimeout(t)
    \/ \E t \in Tasks : FetchOk(t)
    \/ \E t \in Tasks : FetchConnError(t)
    \/ \E t \in Tasks : FetchTimeout(t)
    \/ \E t \in Tasks : FetchEof(t)
    \/ \E t \in Tasks : FetchError(t)
    \/ Cleanup
    \/ Close
    \/ Tick

----------------------------------------------------------------------------
(***************************************************************************)
(* Header fields (centimani/headers.py).  A field value is a sequence of   *)
(* characters; the ones that matter are SP, COMMA, the decimal digits, and *)
(* whole words standing for their letters.                                 *)
(***************************************************************************)
SP == " "
COMMA == ","
Digits == <<"0", "1", "2", "3", "4", "5", "6", "7", "8", "9">>

IsDigit(ch) == \E i \in 1..Len(Digits) : Digits[i] = ch

DigitValue(ch) == (CHOOSE i \in 1..Len(Digits) : Digits[i] = ch) - 1

\* str(n) for a count of body blocks
Numeral(n) == <<Digits[n + 1]>>

\* int(string) of a string of digits
RECURSIVE int(_)
int(v) ==
    IF v = <<>> THEN 0
    ELSE 10 * int(SubSeq(v, 1, Len(v) - 1)) + DigitValue(v[Len(v)])

\* str.strip
RECURSIVE lstrip(_)
lstrip(v) == IF v # <<>> /\ Head(v) = SP THEN lstrip(Tail(v)) ELSE v

RECURSIVE rstrip(_)
rstrip(v) ==
    IF v # <<>> /\ v[Len(v)] = SP THEN rstrip(SubSeq(v, 1, Len(v) - 1)) ELSE v

strip(v) == rstrip(lstrip(v))

\* str.split(",")
RECURSIVE split(_)
split(v) ==
    IF \E i \in 1..Len(v) : v[i] = COMMA
    THEN LET i == CHOOSE j \in 1..Len(v) :
                    v[j] = COMMA /\ \A h \in 1..(j - 1) : v[h] # COMMA
         IN <<SubSeq(v, 1, i - 1)>> \o split(SubSeq(v, i + 1, Len(v)))
    ELSE <<v>>

\* Headers.split_field_content followed by Headers.add: the values a line
\* contributes.  A value with a comma is split and each part stripped; a
\* value without one is kept as it stands.
split_field_content(v) ==
    IF \E i \in 1..Len(v) : v[i] = COMMA
    THEN [i \in 1..Len(split(v)) |-> strip(split(v)[i])]
    ELSE <<v>>

\* Headers.get(name, []) after Headers.parse_lines: the values of the field
\* over all the lines of that name, in order.
RECURSIVE header_get(_, _)
header_get(lines, name) ==
    IF lines = <<>> THEN <<>>
    ELSE (IF Head(lines).name = name
          THEN split_field_content(Head(lines).value) ELSE <<>>)
         \o header_get(Tail(lines), name)

HeaderNames == {"connection", "content-length", "transfert-encoding",
                "transfer-encoding", "except", "expect"}

parse_lines(lines) == [n \in HeaderNames |-> header_get(lines, n)]

\* word in values
Contains(values, word) == \E i \in 1..Len(values) : values[i] = <<word>>

\* re.match(r"^[1-9][0-9]*$", value)
MatchesContentLength(v) ==
    /\ v # <<>>
    /\ \A i \in 1..Len(v) : IsDigit(v[i])
    /\ v[1] # "0"

----------------------------------------------------------------------------
(***************************************************************************)
(* What a peer sends on a server connection.                               *)
(***************************************************************************)
Line(n, v) == [name |-> n, value |-> v]

ConnectionLines ==
    { <<>>,
      <<Line("connection", <<"close">>)>>,
      <<Line("connection", <<SP, "close">>)>>,
      <<Line("connection", <<"keep-alive">>)>>,
      <<Line("connection", <<SP, "keep-alive">>)>> }

\* The body that follows a header block on the wire: "data" blocks for a
\* content-length body; "chunk" blocks, the last-chunk line and the final
\* CRLF for a chunked body.  A peer may close its side before it has sent
\* the whole body it announced.
Chunked(n) == [i \in 1..n |-> "chunk"] \o <<"last", "crlf">>

Data(n) == [i \in 1..n |-> "data"]

Framings ==
    { [lines |-> <<>>, body |-> <<>>] }
    \cup { [lines |-> <<Line("content-length", Numeral(n))>>, body |-> Data(n)] :
              n \in 0..MaxBody }
    \cup { [lines |-> <<Line("content-length", <<SP>> \o Numeral(n))>>,
             body |-> Data(n)] : n \in 1..MaxBody }
    \cup { [lines |-> <<Line("content-length", Numeral(n)),
                        Line("content-length", Numeral(n))>>,
             body |-> Data(n)] : n \in 1..MaxBody }
    \cup { [lines |-> <<Line("content-length", Numeral(MaxBody))>>,
             body |-> Data(MaxBody - 1)] }
    \cup { [lines |-> <<Line("content-length", <<"0">> \o Numeral(MaxBody))>>,
             body |-> Data(MaxBody)],
           [lines |-> <<Line("content-length", Numeral(MaxBody) \o <<"x">>)>>,
             body |-> Data(MaxBody)] }
    \cup { [lines |-> <<Line(te, <<"chunked">>)>>, body |-> Chunked(n)] :
              te \in {"transfer-encoding", "transfert-encoding"},
              n \in 0..MaxBody }
    \cup { [lines |-> <<Line(te, <<"chunked">>),
                        Line("content-length", Numeral(MaxBody))>>,
             body |-> Chunked(MaxBody)] :
              te \in {"transfer-encoding", "transfert-encoding"} }
    \cup { [lines |-> <<Line(te, <<"gzip">>)>>, body |-> Data(MaxBody)] :
              te \in {"transfer-encoding", "transfert-encoding"} }
    \cup { [lines |-> <<Line(te, <<"gzip", COMMA, SP, "chunked">>)>>,
             body |-> Chunked(MaxBody)] :
              te \in {"transfer-encoding", "transfert-encoding"} }

ExpectLines ==
    { <<>>,
      <<Line("expect", <<"100-continue">>)>>,
      <<Line("except", <<"100-continue">>)>> }

\* A header block as the peer sent it: whether the request line matches
\* REQUEST_LINE_REGEX, its version, whether every header line matches
\* HEADER_FIELD_REGEX, the header lines, what the router and the handler
\* class say of its path and method, and the body that follows.
WellFormed ==
    { [line_ok |-> TRUE, headers_ok |-> TRUE, version |-> v,
       lines |-> c \o f.lines \o e, body |-> f.body,
       route |-> r, method_ok |-> m] :
        v \in {"1.0", "1.1"}, c \in ConnectionLines, f \in Framings,
        e \in ExpectLines,
        r \in BOOLEAN, m \in BOOLEAN }

Malformed ==
    { [line_ok |-> lo, headers_ok |-> FALSE, version |-> "1.1",
       lines |-> <<>>, body |-> b, route |-> TRUE, method_ok |-> TRUE] :
        lo \in BOOLEAN, b \in {<<>>, Data(MaxBody)} }

Requests == { r \in WellFormed : r.route \/ r.method_ok } \cup Malformed

----------------------------------------------------------------------------
(***************************************************************************)
(* One server connection: Http1Connection.run driving Http1Transport.run   *)
(* (centimani/server/http1.py) over the body readers of streamutils.py.    *)
(***************************************************************************)
NoRequest == [set |-> FALSE, version |-> "",
              headers |-> [n \in HeaderNames |-> <<>>],
              route |-> FALSE, method_ok |-> FALSE]

\* no header block read yet
NoHeader == [set |-> FALSE, line_ok |-> FALSE, headers_ok |-> FALSE,
             version |-> "", lines |-> <<>>]

NoReader == [kind |-> "none", size |-> 0, read |-> 0, eof |-> FALSE]

NoExc == [kind |-> "none", code |-> 0, allowed |-> FALSE]

HttpError(code) == [kind |-> "HttpError", code |-> code, allowed |-> FALSE]

EOFError == [kind |-> "EOFError", code |-> 0, allowed |-> FALSE]

ConnectionError == [kind |-> "ConnectionError", code |-> 0, allowed |-> FALSE]

\* any other exception: AssertionError, NotImplementedError, a handler's own
Exception == [kind |-> "Exception", code |-> 0, allowed |-> FALSE]

HandlerStatuses == {100, 200}

ServerInit ==
    /\ spc = "loop"
    /\ keep_alive = TRUE
    /\ request = NoRequest
    /\ body_reader = NoReader
    /\ response = 0
    /\ exc = NoExc
    /\ sent = <<>>
    /\ inbuf = <<>>
    /\ lost = FALSE
    /\ hsteps = 0
    /\ nread = 0
    /\ header = NoHeader

\* The connection can be lost before any step that touches the stream.
LostNow == {lost, TRUE}

\* Http1Transport.receive_request, keep alive check
KeepAliveOf(version, connection) ==
    \/ version = "1.1" /\ ~Contains(connection, "close")
    \/ version = "1.0" /\ Contains(connection, "keep_alive")

\* Http1Transport.receive_request on a header block: the exception raised
\* or the request returned, and the value keep_alive has afterwards.
receive_request(req, ka) ==
    LET h == parse_lines(req.lines)
        te == h["transfert-encoding"]
        cl == h["content-length"]
        h1 == IF te # <<>> THEN [h EXCEPT !["content-length"] = <<>>]
              ELSE IF cl # <<>> THEN h
              ELSE [h EXCEPT !["content-length"] = <<Numeral(0)>>]
        bad == [exc |-> HttpError(400), keep_alive |-> ka, request |-> NoRequest]
        badClose == [bad EXCEPT !.keep_alive = FALSE]
    IN  IF ~req.line_ok THEN bad
        ELSE IF ~req.headers_ok THEN bad
        ELSE IF te # <<>> /\ te[Len(te)] # <<"chunked">> THEN badClose
        ELSE IF te = <<>> /\ Len(cl) > 1 THEN badClose
        ELSE IF te = <<>> /\ cl # <<>> /\ ~MatchesContentLength(cl[1])
             THEN badClose
        ELSE [exc |-> NoExc,
              keep_alive |-> KeepAliveOf(req.version, h1["connection"]),
              request |-> [set |-> TRUE, version |-> req.version,
                           headers |-> h1, route |-> req.route,
                           method_ok |-> req.method_ok]]

\* BufferedBodyReader.is_complete, ChunkedBodyReader.is_complete
is_complete(r) ==
    IF r.kind = "buffered" THEN r.read = r.size ELSE r.eof

\* One call of __anext__ on the reader r over the unread bytes buf: the
\* reader and the bytes afterwards, and how the call ended ("block",
\* "stop" for StopAsyncIteration, "error" for an exception).
anext(r, buf) ==
    IF r.kind = "buffered"
    THEN IF r.read >= r.size \/ buf = <<>>
         THEN [reader |-> [r EXCEPT !.eof = TRUE], buf |-> buf, end |-> "stop"]
         ELSE [reader |-> [r EXCEPT !.read = @ + 1], buf |-> Tail(buf),
               end |-> "block"]
    ELSE IF r.eof \/ buf = <<>> \/ Head(buf) \notin {"chunk", "last"}
         THEN [reader |-> r, buf |-> buf, end |-> "error"]
         ELSE IF Head(buf) = "last"
         THEN [reader |-> [r EXCEPT !.eof = TRUE], buf |-> Tail(buf),
               end |-> "stop"]
         ELSE [reader |-> [r EXCEPT !.read = @ + 1], buf |-> Tail(buf),
               end |-> "block"]

\* AbstractBodyReader.read_into: __anext__ until it stops or raises
RECURSIVE read_into(_, _)
read_into(r, buf) ==
    LET n == anext(r, buf)
    IN  IF n.end = "block" THEN read_into(n.reader, n.buf) ELSE n

\* assert self.response is None
ResponseAssertOk_Removed == TRUE

ResponseAssertOk == response = 0

\* Headers.fields() of the response headers built by send_response
fields(allowed, close) ==
    [connection |-> IF close THEN "close"
                    ELSE IF keep_alive THEN "keep-alive" ELSE "close",
     allowed |-> allowed]

\* Http1Transport.send_response raises: the assertion on self.response,
\* or the one of StreamWriter.write on a transport that is closing.
SendRaises(l) == ~ResponseAssertOk \/ l

\* Http1Transport.send_response(status, headers): the headers given are
\* None, the allowed methods of the 405 error, or a connection: close of
\* the handler, which response_headers.update puts over the transport's.
send_response(status, allowed, close, l) ==
    /\ lost' = l
    /\ IF SendRaises(l)
       THEN UNCHANGED <<sent, response>>
       ELSE /\ sent' = Append(sent, [status |-> status,
                                     headers |-> fields(allowed, close)])
            /\ response' = IF status >= 200 THEN status ELSE response

\* What no step of the server connection changes.
ServerFrame == UNCHANGED <<poolVars, hpackVars, codecVars, streamVars>>

\* Http1Connection.run, loop test; Http1Transport.run, the resets
RunStart ==
    /\ spc = "loop"
    /\ ServerFrame
    /\ keep_alive
    /\ request' = NoRequest
    /\ body_reader' = NoReader
    /\ response' = 0
    /\ hsteps' = 0
    /\ sent' = <<>>
    /\ header' = NoHeader
    /\ spc' = "receive"
    /\ UNCHANGED <<keep_alive, exc, inbuf, lost, nread>>

\* Http1Connection.run, loop left: self.close()
LoopExit ==
    /\ spc = "loop"
    /\ ServerFrame
    /\ ~keep_alive
    /\ spc' = "closed"
    /\ UNCHANGED <<keep_alive, request, body_reader, response, exc, sent,
                   inbuf, lost, hsteps, nread, header>>

\* Http1Transport.receive_request: the reader raises the connection error
ReceiveLost ==
    /\ spc = "receive"
    /\ ServerFrame
    /\ lost' = TRUE
    /\ exc' = ConnectionError
    /\ spc' = "except"
    /\ UNCHANGED <<keep_alive, request, body_reader, response, sent, inbuf,
                   hsteps, nread, header>>

\* receive_request on a timeout, with keep_alive left as it was
ReceiveTimeout_KeepAlive ==
    /\ spc = "receive"
    /\ ServerFrame
    /\ ~lost
    /\ inbuf = <<>>
    /\ exc' = HttpError(408)
    /\ spc' = "except"
    /\ UNCHANGED <<keep_alive, request, body_reader, response, sent, inbuf,
                   lost, hsteps, nread, header>>

\* Http1Transport.receive_request: no full header block within the timeout
ReceiveTimeout ==
    /\ spc = "receive"
    /\ ServerFrame
    /\ ~lost
    /\ inbuf = <<>>
    /\ keep_alive' = FALSE
    /\ exc' = HttpError(408)
    /\ spc' = "except"
    /\ UNCHANGED <<request, body_reader, response, sent, inbuf, lost, hsteps,
                   nread, header>>

\* Http1Transport.receive_request: the peer has closed its side
ReceiveEof ==
    /\ spc = "receive"
    /\ ServerFrame
    /\ ~lost
    /\ inbuf = <<>>
    /\ exc' = EOFError
    /\ spc' = "except"
    /\ UNCHANGED <<keep_alive, request, body_reader, response, sent, inbuf,
                   lost, hsteps, nread, header>>

\* Http1Transport.receive_request: bytes of the previous message are still
\* in the reader and are taken for the start of a header block.  A leading
\* CRLF gives an empty request line, anything else a malformed one.
ReceiveLeftover ==
    /\ spc = "receive"
    /\ ServerFrame
    /\ ~lost
    /\ inbuf # <<>>
    /\ inbuf' = <<>>
    /\ exc' = IF Head(inbuf) = "crlf" THEN EOFError ELSE HttpError(400)
    /\ spc' = "except"
    /\ UNCHANGED <<keep_alive, request, body_reader, response, sent, lost,
                   hsteps, nread, header>>

\* Http1Transport.receive_request: the peer sends a header block
ReceiveRequest ==
    /\ spc = "receive"
    /\ ServerFrame
    /\ ~lost
    /\ inbuf = <<>>
    /\ nread < MaxExchanges
    /\ \E req \in Requests :
         LET r == receive_request(req, keep_alive)
         IN  /\ keep_alive' = r.keep_alive
             /\ exc' = r.exc
             /\ inbuf' = req.body
             /\ header' = [set |-> TRUE, line_ok |-> req.line_ok,
                           headers_ok |-> req.headers_ok,
                           version |-> req.version, lines |-> req.lines]
             /\ IF r.exc = NoExc
                THEN request' = r.request /\ spc' = "create_body_reader"
                ELSE request' = request /\ spc' = "except"
    /\ nread' = nread + 1
    /\ UNCHANGED <<body_reader, response, sent, lost, hsteps>>

\* Http1Transport.create_body_reader
CreateBodyReader ==
    /\ spc = "create_body_reader"
    /\ ServerFrame
    /\ LET te == request.headers["transfert-encoding"]
           cl == request.headers["content-length"]
       IN  IF cl # <<>>
           THEN IF Len(cl) = 1
                THEN /\ body_reader' = [kind |-> "buffered", size |-> int(cl[1]),
                                        read |-> 0, eof |-> FALSE]
                     /\ exc' = exc
                     /\ spc' = "handle_request"
                ELSE /\ body_reader' = body_reader
                     /\ exc' = Exception
                     /\ spc' = "except"
           ELSE IF Contains(te, "chunked") /\ Len(te) = 1
           THEN /\ body_reader' = [kind |-> "chunked", size |-> 0,
                                   read |-> 0, eof |-> FALSE]
                /\ exc' = exc
                /\ spc' = "handle_request"
           ELSE /\ body_reader' = body_reader
                /\ exc' = Exception
                /\ spc' = "except"
    /\ UNCHANGED <<keep_alive, request, response, sent, inbuf, lost, hsteps,
                   nread, header>>

\* Http1Transport.handle_request, request routing
Route ==
    /\ spc = "handle_request"
    /\ ServerFrame
    /\ IF ~request.route
       THEN exc' = HttpError(404) /\ spc' = "except"
       ELSE IF ~request.method_ok
       THEN exc' = [HttpError(405) EXCEPT !.allowed = TRUE] /\ spc' = "except"
       ELSE exc' = exc /\ spc' = "can_continue"
    /\ UNCHANGED <<keep_alive, request, body_reader, response, sent, inbuf,
                   lost, hsteps, nread, header>>

Expects100 == Contains(request.headers["except"], "100-continue")

\* Http1Transport.handle_request: the handler's can_continue, which may
\* send an error before it returns False, and the test of its result
CanContinue ==
    /\ spc = "can_continue"
    /\ ServerFrame
    /\ \E cc \in {"true", "false", "error"}, l \in LostNow :
         /\ IF cc = "error"
            THEN send_response(403, FALSE, FALSE, l)
            ELSE UNCHANGED <<sent, response, lost>>
         /\ IF cc = "error" /\ SendRaises(l)
            THEN exc' = Exception /\ spc' = "except"
            ELSE IF cc # "true" /\ Expects100 /\ response' = 0
            THEN exc' = HttpError(417) /\ spc' = "except"
            ELSE /\ exc' = exc
                 /\ spc' = IF Expects100 THEN "send_100" ELSE "handler"
    /\ UNCHANGED <<keep_alive, request, body_reader, inbuf, hsteps, nread, header>>

\* Http1Transport.handle_request: self.handler.send_response(100)
Send100 ==
    /\ spc = "send_100"
    /\ ServerFrame
    /\ \E l \in LostNow :
         /\ send_response(100, FALSE, FALSE, l)
         /\ IF SendRaises(l)
            THEN exc' = Exception /\ spc' = "except"
            ELSE exc' = exc /\ spc' = "handler"
    /\ UNCHANGED <<keep_alive, request, body_reader, inbuf, hsteps, nread, header>>

\* The method handler calls send_response
HandlerSend ==
    /\ spc = "handler"
    /\ ServerFrame
    /\ hsteps < MaxHandlerSteps
    /\ hsteps' = hsteps + 1
    /\ \E status \in HandlerStatuses, close \in BOOLEAN, l \in LostNow :
         /\ send_response(status, FALSE, close, l)
         /\ IF SendRaises(l)
            THEN exc' = Exception /\ spc' = "except"
            ELSE exc' = exc /\ spc' = "handler"
    /\ UNCHANGED <<keep_alive, request, body_reader, inbuf, nread, header>>

\* The method handler reads a block of the request body
HandlerRead ==
    /\ spc = "handler"
    /\ ServerFrame
    /\ hsteps < MaxHandlerSteps
    /\ ~body_reader.eof
    /\ hsteps' = hsteps + 1
    /\ \E l \in LostNow :
         /\ lost' = l
         /\ IF l
            THEN /\ exc' = ConnectionError
                 /\ spc' = "except"
                 /\ UNCHANGED <<body_reader, inbuf>>
            ELSE LET n == anext(body_reader, inbuf)
                 IN  /\ body_reader' = n.reader
                     /\ inbuf' = n.buf
                     /\ IF n.end = "error"
                        THEN exc' = Exception /\ spc' = "except"
                        ELSE exc' = exc /\ spc' = "handler"
    /\ UNCHANGED <<keep_alive, request, response, sent, nread, header>>

\* The method handler raises
HandlerRaise ==
    /\ spc = "handler"
    /\ ServerFrame
    /\ \E e \in {Exception, HttpError(403)} : exc' = e
    /\ spc' = "except"
    /\ UNCHANGED <<keep_alive, request, body_reader, response, sent, inbuf,
                   lost, hsteps, nread, header>>

\* The method handler returns; a handler sends its response before it does
HandlerReturn ==
    /\ spc = "handler"
    /\ response # 0
    /\ ServerFrame
    /\ spc' = "cleanup"
    /\ UNCHANGED <<keep_alive, request, body_reader, response, exc, sent,
                   inbuf, lost, hsteps, nread, header>>

\* Http1Transport.run, the except clauses.  What is left in exc is the
\* exception that leaves run once the finally clause is done.
Except ==
    /\ spc = "except"
    /\ ServerFrame
    /\ spc' = "cleanup"
    /\ IF exc.kind = "EOFError"
       THEN /\ keep_alive' = FALSE
            /\ exc' = NoExc
            /\ UNCHANGED <<sent, response, lost>>
       ELSE IF exc.kind = "ConnectionError"
       THEN UNCHANGED <<keep_alive, exc, sent, response, lost>>
       ELSE /\ keep_alive' = keep_alive
            /\ \E l \in LostNow :
                 /\ IF exc.kind = "HttpError"
                    THEN send_response(exc.code, exc.allowed, FALSE, l)
                    ELSE send_response(500, FALSE, FALSE, l)
                 /\ exc' = IF SendRaises(l) THEN Exception ELSE NoExc
    /\ UNCHANGED <<request, body_reader, inbuf, hsteps, nread, header>>

\* Http1Transport.cleanup, in the finally clause of run
TransportCleanup ==
    /\ spc = "cleanup"
    /\ ServerFrame
    /\ IF body_reader.kind # "none" /\ ~is_complete(body_reader)
       THEN \E l \in LostNow :
              /\ lost' = l
              /\ IF l
                 THEN /\ exc' = ConnectionError
                      /\ UNCHANGED <<body_reader, inbuf>>
                 ELSE LET n == read_into(body_reader, inbuf)
                      IN  /\ body_reader' = n.reader
                          /\ inbuf' = n.buf
                          /\ exc' = IF n.end = "error" THEN Exception ELSE exc
       ELSE UNCHANGED <<body_reader, inbuf, lost, exc>>
    /\ spc' = IF exc' = NoExc THEN "loop" ELSE "raised"
    /\ UNCHANGED <<keep_alive, request, response, sent, hsteps, nread, header>>

\* Http1Connection.run: an exception leaves self.transport.run().  A
\* ConnectionError breaks the loop and the connection is closed; any other
\* exception leaves Http1Connection.run as well.
RunRaised ==
    /\ spc = "raised"
    /\ ServerFrame
    /\ spc' = IF exc.kind = "ConnectionError" THEN "closed" ELSE "crashed"
    /\ UNCHANGED <<keep_alive, request, body_reader, response, exc, sent,
                   inbuf, lost, hsteps, nread, header>>

ServerNext ==
    \/ RunStart
    \/ LoopExit
    \/ ReceiveLost
    \/ ReceiveTimeout
    \/ ReceiveEof
    \/ ReceiveLeftover
    \/ ReceiveRequest
    \/ CreateBodyReader
    \/ Route
    \/ CanContinue
    \/ Send100
    \/ HandlerSend
    \/ HandlerRead
    \/ HandlerRaise
    \/ HandlerReturn
    \/ Except
    \/ TransportCleanup
    \/ RunRaised

----------------------------------------------------------------------------
(***************************************************************************)
(* HPACK (centimani/http2/hpack.py, centimani/http2/huffman.py).  A string *)
(* is named by a TLA+ string and spelled in bytes by ascii; a header field *)
(* or table entry is a tuple of strings; the wire is a sequence of bytes.  *)
(***************************************************************************)
STATIC_TABLE ==
    << <<":authority">>, <<":method", "GET">>, <<":method", "POST">>,
       <<":path", "/">>, <<":path", "/index.html">>,
       <<":scheme", "http">>, <<":scheme", "https">>,
       <<":status", "200">>, <<":status", "204">>, <<":status", "206">>,
       <<":status", "304">>, <<":status", "400">>, <<":status", "404">>,
       <<":status", "500">>, <<"accept-charset">>,
       <<"accept-encoding", "gzip, deflate">>, <<"accept-language">>,
       <<"accept-ranges">>, <<"accept">>,
       <<"access-control-allow-origin">>, <<"age">>, <<"allow">>,
       <<"authorization">>, <<"cache-control">>,
       <<"content-disposition">>, <<"content-encoding">>,
       <<"content-language">>, <<"content-length">>,
       <<"content-location">>, <<"content-range">>, <<"content-type">>,
       <<"cookie">>, <<"date">>, <<"etag">>, <<"except">>, <<"expires">>,
       <<"from">>, <<"host">>, <<"if-match">>, <<"if-modified-since">>,
       <<"if-none-match">>, <<"if-range">>, <<"if-unmodified-since">>,
       <<"last-modified">>, <<"link">>, <<"location">>,
       <<"max-forwards">>, <<"proxy-authenticate">>,
       <<"proxy-authorization">>, <<"range">>, <<"referer">>,
       <<"refresh">>, <<"retry-after">>, <<"server">>, <<"set-cookie">>,
       <<"strict-transport-security">>, <<"transfert-encoding">>,
       <<"user-agent">>, <<"vary">>, <<"via">>, <<"www-authenticate">> >>

Strings == {":method", "age", "x", "GET", "PUT", "1", "2"}

\* str.encode("ascii")
ascii ==
    ":method" :> <<58, 109, 101, 116, 104, 111, 100>> @@
    "age" :> <<97, 103, 101>> @@
    "x" :> <<120>> @@
    "GET" :> <<71, 69, 84>> @@
    "PUT" :> <<80, 85, 84>> @@
    "1" :> <<49>> @@
    "2" :> <<50>> @@
    "?" :> <<63>>

\* bytes.decode("ascii"); "?" stands for any string outside Strings
from_ascii(bytes) ==
    IF \E s \in Strings : ascii[s] = bytes
    THEN CHOOSE s \in Strings : ascii[s] = bytes
    ELSE "?"

\* The fields given to the encoder: one found whole in the static table,
\* one whose name is found in a static pair, one whose name is found in a
\* static entry without value, two found in no static entry.
HeaderFields ==
    { <<":method", "GET">>, <<":method", "PUT">>, <<"age", "1">>,
      <<"x", "1">>, <<"x", "2">> }

\* HUFFMAN_CODEBOOK: (code, bit length) of the bytes 0..255 and of EOS (256);
\* the entry of char is HUFFMAN_CODEBOOK[char + 1]
HUFFMAN_CODEBOOK ==
    <<
       <<8184, 13>>, <<8388568, 23>>, <<268435426, 28>>, <<268435427, 28>>,
       <<268435428, 28>>, <<268435429, 28>>, <<268435430, 28>>, <<268435431, 28>>,
       <<268435432, 28>>, <<16777194, 24>>, <<1073741820, 30>>, <<268435433, 28>>,
       <<268435434, 28>>, <<1073741821, 30>>, <<268435435, 28>>, <<268435436, 28>>,
       <<268435437, 28>>, <<268435438, 28>>, <<268435439, 28>>, <<268435440, 28>>,
       <<268435441, 28>>, <<268435442, 28>>, <<1073741822, 30>>, <<268435443, 28>>,
       <<268435444, 28>>, <<268435445, 28>>, <<268435446, 28>>, <<268435447, 28>>,
       <<268435448, 28>>, <<268435449, 28>>, <<268435450, 28>>, <<268435451, 28>>,
       <<20, 6>>, <<1016, 10>>, <<1017, 10>>, <<4090, 12>>,
       <<8185, 13>>, <<21, 6>>, <<248, 8>>, <<2042, 11>>,
       <<1018, 10>>, <<1019, 10>>, <<249, 8>>, <<2043, 11>>,
       <<250, 8>>, <<22, 6>>, <<23, 6>>, <<24, 6>>,
       <<0, 5>>, <<1, 5>>, <<2, 5>>, <<25, 6>>,
       <<26, 6>>, <<27, 6>>, <<28, 6>>, <<29, 6>>,
       <<30, 6>>, <<31, 6>>, <<92, 7>>, <<251, 8>>,
       <<32764, 15>>, <<32, 6>>, <<4091, 12>>, <<1020, 10>>,
       <<8186, 13>>, <<33, 6>>, <<93, 7>>, <<94, 7>>,
       <<95, 7>>, <<96, 7>>, <<97, 7>>, <<98, 7>>,
       <<99, 7>>, <<100, 7>>, <<101, 7>>, <<102, 7>>,
       <<103, 7>>, <<104, 7>>, <<105, 7>>, <<106, 7>>,
       <<107, 7>>, <<108, 7>>, <<109, 7>>, <<110, 7>>,
       <<111, 7>>, <<112, 7>>, <<113, 7>>, <<114, 7>>,
       <<252, 8>>, <<115, 7>>, <<253, 8>>, <<8187, 13>>,
       <<524272, 19>>, <<8188, 13>>, <<16380, 14>>, <<34, 6>>,
       <<32765, 15>>, <<3, 5>>, <<35, 6>>, <<4, 5>>,
       <<36, 6>>, <<5, 5>>, <<37, 6>>, <<38, 6>>,
       <<39, 6>>, <<6, 5>>, <<116, 7>>, <<117, 7>>,
       <<40, 6>>, <<41, 6>>, <<42, 6>>, <<7, 5>>,
       <<43, 6>>, <<118, 7>>, <<44, 6>>, <<8, 5>>,
       <<9, 5>>, <<45, 6>>, <<119, 7>>, <<120, 7>>,
       <<121, 7>>, <<122, 7>>, <<123, 7>>, <<32766, 15>>,
       <<2044, 11>>, <<16381, 14>>, <<8189, 13>>, <<268435452, 28>>,
       <<1048550, 20>>, <<4194258, 22>>, <<1048551, 20>>, <<1048552, 20>>,
       <<4194259, 22>>, <<4194260, 22>>, <<4194261, 22>>, <<8388569, 23>>,
       <<4194262, 22>>, <<8388570, 23>>, <<8388571, 23>>, <<8388572, 23>>,
       <<8388573, 23>>, <<8388574, 23>>, <<16777195, 24>>, <<8388575, 23>>,
       <<16777196, 24>>, <<16777197, 24>>, <<4194263, 22>>, <<8388576, 23>>,
       <<16777198, 24>>, <<8388577, 23>>, <<8388578, 23>>, <<8388579, 23>>,
       <<8388580, 23>>, <<2097116, 21>>, <<4194264, 22>>, <<8388581, 23>>,
       <<4194265, 22>>, <<8388582, 23>>, <<8388583, 23>>, <<16777199, 24>>,
       <<4194266, 22>>, <<2097117, 21>>, <<1048553, 20>>, <<4194267, 22>>,
       <<4194268, 22>>, <<8388584, 23>>, <<8388585, 23>>, <<2097118, 21>>,
       <<8388586, 23>>, <<4194269, 22>>, <<4194270, 22>>, <<16777200, 24>>,
       <<2097119, 21>>, <<4194271, 22>>, <<8388587, 23>>, <<8388588, 23>>,
       <<2097120, 21>>, <<2097121, 21>>, <<4194272, 22>>, <<2097122, 21>>,
       <<8388589, 23>>, <<4194273, 22>>, <<8388590, 23>>, <<8388591, 23>>,
       <<1048554, 20>>, <<4194274, 22>>, <<4194275, 22>>, <<4194276, 22>>,
       <<8388592, 23>>, <<4194277, 22>>, <<4194278, 22>>, <<8388593, 23>>,
       <<67108832, 26>>, <<67108833, 26>>, <<1048555, 20>>, <<524273, 19>>,
       <<4194279, 22>>, <<8388594, 23>>, <<4194280, 22>>, <<33554412, 25>>,
       <<67108834, 26>>, <<67108835, 26>>, <<67108836, 26>>, <<134217694, 27>>,
       <<134217695, 27>>, <<67108837, 26>>, <<16777201, 24>>, <<33554413, 25>>,
       <<524274, 19>>, <<2097123, 21>>, <<67108838, 26>>, <<134217696, 27>>,
       <<134217697, 27>>, <<67108839, 26>>, <<134217698, 27>>, <<16777202, 24>>,
       <<2097124, 21>>, <<2097125, 21>>, <<67108840, 26>>, <<67108841, 26>>,
       <<268435453, 28>>, <<134217699, 27>>, <<134217700, 27>>, <<134217701, 27>>,
       <<1048556, 20>>, <<16777203, 24>>, <<1048557, 20>>, <<2097126, 21>>,
       <<4194281, 22>>, <<2097127, 21>>, <<2097128, 21>>, <<8388595, 23>>,
       <<4194282, 22>>, <<4194283, 22>>, <<33554414, 25>>, <<33554415, 25>>,
       <<16777204, 24>>, <<16777205, 24>>, <<67108842, 26>>, <<8388596, 23>>,
       <<67108843, 26>>, <<134217702, 27>>, <<67108844, 26>>, <<67108845, 26>>,
       <<134217703, 27>>, <<134217704, 27>>, <<134217705, 27>>, <<134217706, 27>>,
       <<134217707, 27>>, <<268435454, 28>>, <<134217708, 27>>, <<134217709, 27>>,
       <<134217710, 27>>, <<134217711, 27>>, <<134217712, 27>>, <<67108846, 26>>,
       <<1073741823, 30>> >>

\* a & b
RECURSIVE BitAnd(_, _)
BitAnd(a, b) ==
    IF a = 0 \/ b = 0 THEN 0
    ELSE (a % 2) * (b % 2) + 2 * BitAnd(a \div 2, b \div 2)

\* a | b
BitOr(a, b) == a + b - BitAnd(a, b)

\* byte & bit, for a single bit
HasBit(byte, bit) == (byte \div bit) % 2 = 1

\* "{0:0>nb}".format(code): the n binary digits of code, first the highest
Bin(code, n) == [i \in 1..n |-> (code \div (2 ^ (n - i))) % 2]

\* int(bits, base=2)
RECURSIVE FromBin(_)
FromBin(bits) ==
    IF bits = <<>> THEN 0
    ELSE 2 * FromBin(SubSeq(bits, 1, Len(bits) - 1)) + bits[Len(bits)]

\* _HUFFMAN_BINARY_CODES
HUFFMAN_BINARY_CODES ==
    [char \in 0..256 |->
        Bin(HUFFMAN_CODEBOOK[char + 1][1], HUFFMAN_CODEBOOK[char + 1][2])]

\* huffman.encode, first loop: the codes of the bytes, one after another
RECURSIVE bin_raw(_)
bin_raw(string) ==
    IF string = <<>> THEN <<>>
    ELSE HUFFMAN_BINARY_CODES[Head(string)] \o bin_raw(Tail(string))

\* huffman.encode with the last bits padded with zeros
huffman_encode_ZeroPad(string) ==
    LET bits == bin_raw(string)
        byte_count == Len(bits) \div 8
        last_bits == Len(bits) % 8
        padding == 8 - last_bits
        whole == [i \in 1..byte_count |->
                    FromBin(SubSeq(bits, (i - 1) * 8 + 1, i * 8))]
    IN  IF last_bits # 0
        THEN Append(whole,
                    FromBin(SubSeq(bits, byte_count * 8 + 1, Len(bits)))
                      * (2 ^ padding))
        ELSE whole

\* huffman.encode: whole bytes, then the last bits padded with ones
huffman_encode(string) ==
    LET bits == bin_raw(string)
        byte_count == Len(bits) \div 8
        last_bits == Len(bits) % 8
        padding == 8 - last_bits
        whole == [i \in 1..byte_count |->
                    FromBin(SubSeq(bits, (i - 1) * 8 + 1, i * 8))]
    IN  IF last_bits # 0
        THEN Append(whole,
                    BitOr(FromBin(SubSeq(bits, byte_count * 8 + 1, Len(bits)))
                            * (2 ^ padding),
                          (2 ^ padding) - 1))
        ELSE whole

\* the bits of the bytes, first the highest of each
bin_bytes(string) ==
    [i \in 1..(8 * Len(string)) |->
        (string[(i - 1) \div 8 + 1] \div (2 ^ (7 - ((i - 1) % 8)))) % 2]

\* code[index] == "1" for the binary code of char, index < len(code)
code_bit(char, index) ==
    LET entry == HUFFMAN_CODEBOOK[char + 1]
    IN  index < entry[2] /\ (entry[1] \div (2 ^ (entry[2] - index - 1))) % 2 = 1

\* _Node.from_sequence(sequence, index): sequence is a part of the lookup
\* table sorted by code, kept here as the set of its chars.  right is the
\* table from the first code with a "1" at index on, left is what precedes
\* it; a part of one code is the leaf of its char, an empty part is None,
\* a larger part is a node built on index + 1.
RECURSIVE from_sequence(_, _)
from_sequence(sequence, index) ==
    LET right == {char \in sequence : code_bit(char, index)}
        left == sequence \ right
        side(part) ==
            IF Cardinality(part) > 1
            THEN from_sequence(part, index + 1)
            ELSE IF Cardinality(part) = 1
            THEN [kind |-> "leaf", char |-> CHOOSE char \in part : TRUE]
            ELSE [kind |-> "None"]
    IN  [kind |-> "node", left |-> side(left), right |-> side(right)]

\* _HUFFMAN_TREE = _build_huffman_tree()
HUFFMAN_TREE == from_sequence(0..256, 0)

\* What decode gives when it raises: Exception("Unknown code ...") on a
\* None node, ValueError on appending the leaf 256 to a bytearray.
HuffmanError == <<-1>>

\* The leaves and None nodes of the tree, each with its path from the root:
\* 1 for current_node.right, 0 for current_node.left.
RECURSIVE terminals(_, _)
terminals(node, path) ==
    IF node.kind = "node"
    THEN terminals(node.left, Append(path, 0))
           \cup terminals(node.right, Append(path, 1))
    ELSE {[path |-> path, node |-> node]}

HUFFMAN_TERMINALS == terminals(HUFFMAN_TREE, <<>>)

\* huffman.decode, the loop from the root to the next leaf: following
\* bits[index], bits[index + 1], ... from _HUFFMAN_TREE ends at the leaf or
\* None node whose path those bits start with, or inside the tree when the
\* bits run out before one is reached.
huffman_descend(bits, index) ==
    LET reached ==
            {t \in HUFFMAN_TERMINALS :
                /\ index + Len(t.path) - 1 <= Len(bits)
                /\ SubSeq(bits, index, index + Len(t.path) - 1) = t.path}
    IN  IF reached = {} THEN [end |-> "bits", char |-> 0, index |-> index]
        ELSE CHOOSE result \in
            { IF t.node.kind = "None"
              THEN [end |-> "None", char |-> 0, index |-> index]
              ELSE [end |-> "leaf", char |-> t.node.char,
                    index |-> index + Len(t.path)] : t \in reached } : TRUE

\* huffman.decode: walk the tree bit by bit, a byte at each leaf, and
\* start again from the root after it
RECURSIVE huffman_walk(_, _, _)
huffman_walk(bits, index, decoded_string) ==
    CHOOSE result \in
        { IF leaf.end = "bits" THEN decoded_string
          ELSE IF leaf.end = "None" \/ leaf.char > 255 THEN HuffmanError
          ELSE huffman_walk(bits, leaf.index,
                            Append(decoded_string, leaf.char)) :
            leaf \in {huffman_descend(bits, index)} } : TRUE

huffman_decode(string) ==
    CHOOSE result \in
        { huffman_walk(bits, 1, <<>>) : bits \in {bin_bytes(string)} } : TRUE

\* max_size=None
None == -1

\* HpackContext._entry_size
RECURSIVE entry_size_sum(_)
entry_size_sum(entry) ==
    IF entry = <<>> THEN 0
    ELSE Len(ascii[Head(entry)]) + entry_size_sum(Tail(entry))

entry_size(entry) == 32 + entry_size_sum(entry)

\* HpackContext.__init__
HpackContext(limit, max_size) ==
    [limit |-> limit,
     max_size |-> IF max_size = None \/ max_size = 0 THEN limit ELSE max_size,
     dynamic_table |-> <<>>,
     size |-> 0]

\* HpackContext.__getitem__; <<>> stands for the AssertionError on an index
\* that is not positive and for the IndexError past the dynamic table
getitem(ctx, index) ==
    IF index <= 0 THEN <<>>
    ELSE IF index - 1 < Len(STATIC_TABLE) THEN STATIC_TABLE[index]
    ELSE IF index - Len(STATIC_TABLE) <= Len(ctx.dynamic_table)
    THEN ctx.dynamic_table[index - Len(STATIC_TABLE)]
    ELSE <<>>

\* while self._size > self._max_size: pop the last entry
evict_Nothing(ctx) == ctx

RECURSIVE evict(_)
evict(ctx) ==
    IF ctx.size > ctx.max_size /\ ctx.dynamic_table # <<>>
    THEN LET n == Len(ctx.dynamic_table)
         IN  evict([ctx EXCEPT
                      !.dynamic_table = SubSeq(@, 1, n - 1),
                      !.size = @ - entry_size(ctx.dynamic_table[n])])
    ELSE ctx

\* HpackContext.set_max_size: the context afterwards, and whether it raised
set_max_size(ctx, value) ==
    IF value > ctx.limit
    THEN [ctx |-> ctx, raised |-> "ValueError"]
    ELSE [ctx |-> evict([ctx EXCEPT !.max_size = value]), raised |-> "none"]

\* HpackContext.set_limit
set_limit(ctx, value) ==
    LET c == [ctx EXCEPT !.limit = value]
    IN  IF c.max_size > c.limit THEN set_max_size(c, c.limit).ctx ELSE c

add_Append(ctx, header_field) ==
    evict([ctx EXCEPT !.dynamic_table = @ \o <<header_field>>,
                      !.size = @ + entry_size(header_field)])

\* HpackContext.add
add(ctx, header_field) ==
    evict([ctx EXCEPT !.dynamic_table = <<header_field>> \o @,
                      !.size = @ + entry_size(header_field)])

\* iter(context): the static table, then the dynamic table
entries(ctx) == STATIC_TABLE \o ctx.dynamic_table

\* HpackContext.get_index
get_index(ctx, header_field) ==
    LET es == entries(ctx)
        full == {i \in 1..Len(es) : es[i] = header_field}
        name == {i \in 1..Len(es) : es[i][1] = header_field[1]}
        first(S) == CHOOSE i \in S : \A j \in S : i <= j
    IN  IF full # {} THEN [type |-> "FULL", index |-> first(full)]
        ELSE IF name # {} THEN [type |-> "NAME", index |-> first(name)]
        ELSE [type |-> "NONE", index |-> 0]

\* HpackEncoder._encode_int, the continuation bytes
RECURSIVE encode_int_rest_NoFlag(_)
encode_int_rest_NoFlag(value) ==
    IF value >= 128
    THEN <<value % 128>> \o encode_int_rest_NoFlag(value \div 128)
    ELSE <<value>>

RECURSIVE encode_int_rest(_)
encode_int_rest(value) ==
    IF value >= 128
    THEN <<BitOr(value % 128, 128)>> \o encode_int_rest(value \div 128)
    ELSE <<value>>

\* HpackEncoder._encode_int
encode_int(value, prefix_length, bit_pattern) ==
    LET mask == (2 ^ prefix_length) - 1
    IN  IF value < mask
        THEN <<BitOr(value, bit_pattern)>>
        ELSE <<BitOr(mask, bit_pattern)>> \o encode_int_rest(value - mask)

\* HpackEncoder._encode_string, with what the huffman policy said
encode_string(string, huffman_encode_it) ==
    IF ~huffman_encode_it
    THEN encode_int(Len(ascii[string]), 7, 0) \o ascii[string]
    ELSE LET encoded_string == huffman_encode(ascii[string])
         IN  encode_int(Len(encoded_string), 7, 128) \o encoded_string

\* HpackEncoder.encode, with what the indexing policy and the huffman
\* policy said: the bytes, and the context afterwards
encode(ctx, header_field, indexing, huffman_name, huffman_value) ==
    LET name == header_field[1]
        value == header_field[2]
        found == get_index(ctx, header_field)
        is_indexable == IF found.type # "FULL" THEN indexing ELSE FALSE
        data ==
            IF found.type = "NONE"
            THEN <<IF is_indexable THEN 64 ELSE 0>>
                 \o encode_string(name, huffman_name)
                 \o encode_string(value, huffman_value)
            ELSE IF found.type = "NAME"
            THEN (IF is_indexable THEN encode_int(found.index, 6, 64)
                  ELSE encode_int(found.index, 4, 0))
                 \o encode_string(value, huffman_value)
            ELSE encode_int(found.index, 7, 128)
    IN  [data |-> data,
         ctx |-> IF is_indexable THEN add(ctx, header_field) ELSE ctx]

\* HpackDecoder._decode_int, the continuation bytes; pos is the place of
\* the next byte of the iterator
RECURSIVE decode_int_rest(_, _, _, _)
decode_int_rest(data, pos, value, chunk_shift) ==
    IF pos > Len(data) THEN [value |-> value, pos |-> pos, ok |-> FALSE]
    ELSE LET v == value + (data[pos] % 128) * (2 ^ chunk_shift)
         IN  IF HasBit(data[pos], 128)
             THEN decode_int_rest(data, pos + 1, v, chunk_shift + 7)
             ELSE [value |-> v, pos |-> pos + 1, ok |-> TRUE]

\* HpackDecoder._decode_int
decode_int(data, pos, prefix_length, first_byte) ==
    LET mask == (2 ^ prefix_length) - 1
        first == first_byte % (mask + 1)
    IN  IF first < mask THEN [value |-> first, pos |-> pos, ok |-> TRUE]
        ELSE decode_int_rest(data, pos, first, 0)

\* HpackDecoder._decode_string
decode_string(data, pos) ==
    IF pos > Len(data) THEN [string |-> "?", pos |-> pos, ok |-> FALSE]
    ELSE LET first_byte == data[pos]
             length == decode_int(data, pos + 1, 7, first_byte)
             last == IF length.pos + length.value - 1 <= Len(data)
                     THEN length.pos + length.value - 1 ELSE Len(data)
             string == SubSeq(data, length.pos, last)
         IN  IF ~length.ok THEN [string |-> "?", pos |-> length.pos, ok |-> FALSE]
             ELSE [string |-> from_ascii(IF HasBit(first_byte, 128)
                                         THEN huffman_decode(string)
                                         ELSE string),
                   pos |-> last + 1, ok |-> TRUE]

\* A Python tuple written out as its strings, an inner tuple in brackets:
\* (name, value) with name a string is <<name, value>>.
Pair(name, value) == <<name, value>>

PairOfEntry(entry, value) == <<"(">> \o entry \o <<")", value>>

\* HpackDecoder.decode, byte & 0x40
incremental_Never(byte) == FALSE

incremental(byte) == HasBit(byte, 64)

\* the flag incremental_indexing once the representation has been read,
\* set for the never indexed literals as well
incremental_indexing_OrNever(byte) == HasBit(byte, 64) \/ HasBit(byte, 16)

\* HpackDecoder.decode: the flag incremental_indexing once the
\* representation has been read, tested before self._context.add
incremental_indexing(byte) == incremental(byte)

\* HpackDecoder.decode, a literal field: the name by index or by string,
\* then the value.  tuple_name says whether the whole entry is taken for
\* the name (self._context[name_index]) or its first string ([0]).
decode_literal(ctx, data, pos, prefix_length, tuple_name) ==
    LET byte == data[pos]
        by_index == byte % (2 ^ prefix_length) # 0
        name_index == decode_int(data, pos + 1, prefix_length, byte)
        entry == getitem(ctx, name_index.value)
        name_string == decode_string(data, pos + 1)
        after_name == IF by_index THEN name_index.pos ELSE name_string.pos
        value == decode_string(data, after_name)
        name_ok == IF by_index THEN name_index.ok /\ entry # <<>>
                   ELSE name_string.ok
    IN  [field |-> IF by_index
                   THEN IF tuple_name THEN PairOfEntry(entry, value.string)
                        ELSE Pair(IF entry # <<>> THEN entry[1] ELSE "?",
                                  value.string)
                   ELSE Pair(name_string.string, value.string),
         pos |-> value.pos,
         ok |-> name_ok /\ value.ok]

\* HpackDecoder.decode: the fields yielded, the context afterwards, and
\* whether the generator raised
RECURSIVE decode(_, _, _, _)
decode(ctx, data, pos, out) ==
    IF pos > Len(data) THEN [fields |-> out, ctx |-> ctx, raised |-> "none"]
    ELSE LET byte == data[pos]
         IN  IF HasBit(byte, 128)
             THEN LET index == decode_int(data, pos + 1, 7, byte)
                      entry == getitem(ctx, index.value)
                  IN  IF ~index.ok \/ entry = <<>>
                      THEN [fields |-> out, ctx |-> ctx, raised |-> "error"]
                      ELSE decode(ctx, data, index.pos, Append(out, entry))
             ELSE IF incremental(byte)
             THEN LET lit == decode_literal(ctx, data, pos, 6, FALSE)
                  IN  IF ~lit.ok
                      THEN [fields |-> out, ctx |-> ctx, raised |-> "error"]
                      ELSE decode(IF incremental_indexing(byte)
                                  THEN add(ctx, lit.field) ELSE ctx,
                                  data, lit.pos, Append(out, lit.field))
             ELSE IF HasBit(byte, 32)
             THEN LET new_size == decode_int(data, pos + 1, 5, byte)
                      r == set_max_size(ctx, new_size.value)
                  IN  IF ~new_size.ok
                      THEN [fields |-> out, ctx |-> ctx, raised |-> "error"]
                      ELSE IF r.raised # "none"
                      THEN [fields |-> out, ctx |-> ctx, raised |-> r.raised]
                      ELSE decode(r.ctx, data, new_size.pos, out)
             ELSE LET lit == decode_literal(ctx, data, pos, 4,
                                            ~HasBit(byte, 16))
                  IN  IF ~lit.ok
                      THEN [fields |-> out, ctx |-> ctx, raised |-> "error"]
                      ELSE decode(IF incremental_indexing(byte)
                                  THEN add(ctx, lit.field) ELSE ctx,
                                  data, lit.pos, Append(out, lit.field))

\* The sizes tried for limit and max_size: nothing, each entry alone, and
\* room for one or two entries.
TableLimits == {MaxTable \div 2, MaxTable}

TableSizes ==
    {0} \cup TableLimits \cup {entry_size(f) : f \in HeaderFields}

\* An encoder and a decoder just built on equal contexts.
HpackStart(limit, max_size) ==
    /\ encoder = HpackContext(limit, max_size)
    /\ decoder = HpackContext(limit, max_size)
    /\ headers = <<>>
    /\ evicted = 0
    /\ kinds = <<>>
    /\ wire = <<>>
    /\ decoded = <<>>
    /\ raised = "none"

HpackInit == HpackStart(MaxTable, None)

\* What no step of the codec changes.
HpackFrame == UNCHANGED <<poolVars, serverVars, codecVars, streamVars>>

\* HpackDecoder.decode, the tests on the first byte of a representation
representation(byte) ==
    IF HasBit(byte, 128) THEN "indexed"
    ELSE IF HasBit(byte, 64) THEN "incremental"
    ELSE IF HasBit(byte, 32) THEN "size update"
    ELSE IF HasBit(byte, 16) THEN "never indexed"
    ELSE "no indexing"

\* HpackEncoder.encode(header_field): the next field of the block, or the
\* first one of a new block once the previous block has been decoded.  The
\* indexing policy answers for the field, the huffman policy for each of
\* its two strings.
Encode ==
    /\ wire = <<>> \/ Len(headers) < MaxFields
    /\ HpackFrame
    /\ \E f \in HeaderFields, indexing \in BOOLEAN,
          huffman_name \in BOOLEAN, huffman_value \in BOOLEAN :
         \E r \in {encode(encoder, f, indexing, huffman_name, huffman_value)} :
         LET dropped == IF r.ctx = encoder THEN 0
                        ELSE Len(encoder.dynamic_table) + 1
                             - Len(r.ctx.dynamic_table)
         IN  /\ encoder' = r.ctx
             /\ wire' = wire \o r.data
             /\ headers' = IF wire = <<>> THEN <<f>> ELSE Append(headers, f)
             /\ evicted' = IF wire = <<>> THEN dropped ELSE evicted + dropped
             /\ kinds' = IF wire = <<>> THEN <<representation(r.data[1])>>
                         ELSE Append(kinds, representation(r.data[1]))
    /\ decoded' = IF wire = <<>> THEN <<>> ELSE decoded
    /\ raised' = "none"
    /\ UNCHANGED decoder

\* A field that the encoder of the peer writes as a literal never indexed,
\* the bit 0x10 set on the first byte (HpackEncoder does not write this
\* representation, HpackDecoder reads it): the field is not indexed.
EncodeNeverIndexed ==
    /\ wire = <<>> \/ Len(headers) < MaxFields
    /\ HpackFrame
    /\ \E f \in HeaderFields, huffman_name \in BOOLEAN,
          huffman_value \in BOOLEAN :
         \E r \in {encode(encoder, f, FALSE, huffman_name, huffman_value)} :
             /\ representation(r.data[1]) = "no indexing"
             /\ wire' = wire \o <<r.data[1] + 16>> \o Tail(r.data)
             /\ headers' = IF wire = <<>> THEN <<f>> ELSE Append(headers, f)
             /\ kinds' = IF wire = <<>> THEN <<"never indexed">>
                         ELSE Append(kinds, "never indexed")
    /\ evicted' = IF wire = <<>> THEN 0 ELSE evicted
    /\ decoded' = IF wire = <<>> THEN <<>> ELSE decoded
    /\ raised' = "none"
    /\ UNCHANGED <<encoder, decoder>>

\* HpackDecoder.decode over the bytes of the block
Decode ==
    /\ wire # <<>>
    /\ HpackFrame
    /\ \E r \in {decode(decoder, wire, 1, <<>>)} :
           /\ decoder' = r.ctx
           /\ decoded' = r.fields
           /\ raised' = r.raised
    /\ wire' = <<>>
    /\ UNCHANGED <<encoder, headers, evicted, kinds>>

HpackNext ==
    \/ Encode
    \/ EncodeNeverIndexed
    \/ Decode

\* HpackContext.add on a context of its own
ContextAdd ==
    /\ HpackFrame
    /\ \E f \in HeaderFields : encoder' = add(encoder, f)
    /\ raised' = "none"
    /\ UNCHANGED <<decoder, headers, evicted, kinds, wire, decoded>>

\* context.max_size = value
ContextSetMaxSize ==
    /\ HpackFrame
    /\ \E value \in TableSizes :
         /\ encoder' = set_max_size(encoder, value).ctx
         /\ raised' = set_max_size(encoder, value).raised
    /\ UNCHANGED <<decoder, headers, evicted, kinds, wire, decoded>>

\* context.limit = value
ContextSetLimit ==
    /\ HpackFrame
    /\ \E value \in TableSizes : encoder' = set_limit(encoder, value)
    /\ raised' = "none"
    /\ UNCHANGED <<decoder, headers, evicted, kinds, wire, decoded>>

ContextNext ==
    \/ ContextAdd
    \/ ContextSetMaxSize
    \/ ContextSetLimit

----------------------------------------------------------------------------
(***************************************************************************)
(* The coding functions on their own: an input is chosen, the coding      *)
(* function is applied, then its inverse is applied to the bytes.         *)
(***************************************************************************)
\* No coding call is under way.
CodecIdle ==
    /\ cpc = "idle"
    /\ cin = <<>>
    /\ cdata = <<>>
    /\ cout = <<>>

CodecFrame == UNCHANGED <<poolVars, serverVars, hpackVars, streamVars>>

\* The integers given to _encode_int: the small ones, and the ones next to
\* each power of two, where the number of bytes changes.
IntValues ==
    (0..MaxInt) \cup {2 ^ k + d : k \in 1..MaxBits, d \in {-1, 0, 1}}

\* assert 0 < prefix_length < 8
PrefixLengths == 1..7

\* The bit patterns that leave the prefix_length low bits free:
\* assert 0x00 <= bit_pattern < 0x100
BitPatterns(prefix_length) ==
    {k * (2 ^ prefix_length) : k \in 0..((256 \div (2 ^ prefix_length)) - 1)}

\* The bytes that may follow the integer in the iterator.
Trailing == {<<>>, <<0>>, <<255>>}

IntInputs ==
    [value : IntValues, prefix_length : PrefixLengths,
     bit_pattern : 0..255, rest : Trailing]

\* The arguments of one call of _encode_int.
IntInit ==
    /\ cpc = "input"
    /\ cin \in {i \in IntInputs : i.bit_pattern \in BitPatterns(i.prefix_length)}
    /\ cdata = <<>>
    /\ cout = <<>>

\* HpackEncoder._encode_int(value, prefix_length, bit_pattern)
EncodeInt ==
    /\ cpc = "input"
    /\ CodecFrame
    /\ cdata' = encode_int(cin.value, cin.prefix_length, cin.bit_pattern)
    /\ cpc' = "encoded"
    /\ UNCHANGED <<cin, cout>>

\* HpackDecoder._decode_int(iterator, prefix_length, first_byte), as decode
\* calls it: the first byte was taken from the iterator by the for loop.
DecodeInt ==
    /\ cpc = "encoded"
    /\ CodecFrame
    /\ cout' = decode_int(cdata \o cin.rest, 2, cin.prefix_length, cdata[1])
    /\ cpc' = "decoded"
    /\ UNCHANGED <<cin, cdata>>

IntNext ==
    \/ EncodeInt
    \/ DecodeInt

\* The ASCII bytes
AsciiBytes == 0..127

\* For each code length of an ASCII byte, the first byte of that length.
SampleBytes ==
    {char \in AsciiBytes :
        LET same == {other \in AsciiBytes :
                        HUFFMAN_CODEBOOK[other + 1][2] = HUFFMAN_CODEBOOK[char + 1][2]}
        IN  \A other \in same : char <= other}

\* The strings of SampleBytes of a given length
RECURSIVE SampleStrings(_)
SampleStrings(length) ==
    IF length = 0 THEN {<<>>}
    ELSE {Append(string, char) : string \in SampleStrings(length - 1),
                                 char \in SampleBytes}

\* The byte strings given to huffman.encode: every ASCII byte alone, and
\* the strings of SampleBytes up to MaxString.
HuffmanInputs ==
    {<<char>> : char \in AsciiBytes}
        \cup UNION {SampleStrings(length) : length \in 0..MaxString}

\* The argument of one call of huffman.encode.
HuffmanInit ==
    /\ cpc = "input"
    /\ cin \in [string : HuffmanInputs]
    /\ cdata = <<>>
    /\ cout = <<>>

\* huffman.encode(string)
HuffmanEncode ==
    /\ cpc = "input"
    /\ CodecFrame
    /\ cdata' = huffman_encode(cin.string)
    /\ cpc' = "encoded"
    /\ UNCHANGED <<cin, cout>>

\* huffman.decode(string)
HuffmanDecode ==
    /\ cpc = "encoded"
    /\ CodecFrame
    /\ cout' = huffman_decode(cdata)
    /\ cpc' = "decoded"
    /\ UNCHANGED <<cin, cdata>>

HuffmanNext ==
    \/ HuffmanEncode
    \/ HuffmanDecode

----------------------------------------------------------------------------
(***************************************************************************)
(* StreamReader (centimani/stream.py): feed and feed_eof, called by the    *)
(* protocol, and one coroutine that calls read_until.  The buffer stays    *)
(* below the limit of the reader, so that reading is never paused.         *)
(***************************************************************************)
\* The bytes fed: CR, LF and a letter.
CR == 13
LF == 10
Bytes == {CR, LF, 97}

Delimiters == {<<LF>>, <<CR, LF>>}

\* The byte strings of length lo..hi
ByteStrings(lo, hi) == UNION {[1..n -> Bytes] : n \in lo..hi}

\* sequence[start:stop] of Python: a negative index counts from the end,
\* and both are clamped to the sequence.
index_of(i, n) ==
    LET j == IF i < 0 THEN i + n ELSE i
    IN  IF j < 0 THEN 0 ELSE IF j > n THEN n ELSE j

slice(sequence, start, stop) ==
    SubSeq(sequence, index_of(start, Len(sequence)) + 1,
           index_of(stop, Len(sequence)))

\* sequence[start:]
slice_from(sequence, start) == slice(sequence, start, Len(sequence))

\* bytearray.find(sub): the lowest index where sub starts, -1 if none
find(sequence, sub) ==
    LET at == {i \in 0..(Len(sequence) - Len(sub)) :
                  SubSeq(sequence, i + 1, i + Len(sub)) = sub}
    IN  IF at = {} THEN -1 ELSE CHOOSE i \in at : \A j \in at : i <= j

\* sub in sequence
in(sub, sequence) == find(sequence, sub) >= 0

NoPending == [set |-> FALSE, parameter |-> <<>>, done |-> FALSE]

StreamInit ==
    /\ buffer = <<>>
    /\ fed_eof = FALSE
    /\ pending = NoPending
    /\ reading = "idle"
    /\ data_read = <<>>

StreamFrame == UNCHANGED <<poolVars, serverVars, hpackVars, codecVars>>

\* StreamReader.feed, the test of a pending read_until call: the
\* delimiter is looked for in self._buffer[-search_length:]
search_length(data, parameter) == Len(data) - Len(parameter) - 1

wakes(buf, data, parameter) ==
    in(parameter, slice_from(buf, -search_length(data, parameter)))

\* StreamReader.feed(data)
feed ==
    /\ ~fed_eof
    /\ \E data \in ByteStrings(1, MaxFeed) :
         /\ Len(buffer) + Len(data) <= MaxBuffer
         /\ buffer' = buffer \o data
         /\ pending' =
              IF pending.set /\ ~pending.done
                 /\ wakes(buffer \o data, data, pending.parameter)
              THEN [pending EXCEPT !.done = TRUE]
              ELSE pending
    /\ StreamFrame
    /\ UNCHANGED <<fed_eof, reading, data_read>>

\* StreamReader.feed_eof: the event of a pending call is set
feed_eof ==
    /\ ~fed_eof
    /\ fed_eof' = TRUE
    /\ pending' = IF pending.set THEN [pending EXCEPT !.done = TRUE] ELSE pending
    /\ StreamFrame
    /\ UNCHANGED <<buffer, reading, data_read>>

\* read_until from index = self._buffer.find(delimiter) on: what is
\* returned and what is left in the buffer
take(buf, delimiter, at_eof) ==
    LET index == find(buf, delimiter)
    IN  IF at_eof /\ index < 0
        THEN [data |-> buf, buffer |-> <<>>]
        ELSE [data |-> slice(buf, 0, index),
              buffer |-> slice_from(buf, index_of(index + Len(delimiter), Len(buf)))]

\* read_until(delimiter) is called: it returns at once when the delimiter
\* is in the buffer or after feed_eof, and waits on a new event otherwise.
read_until ==
    /\ reading = "idle"
    /\ StreamFrame
    /\ \E delimiter \in Delimiters :
         IF ~fed_eof /\ ~in(delimiter, buffer)
         THEN /\ pending' = [set |-> TRUE, parameter |-> delimiter, done |-> FALSE]
              /\ reading' = "waiting"
              /\ UNCHANGED <<buffer, data_read>>
         ELSE /\ buffer' = take(buffer, delimiter, fed_eof).buffer
              /\ data_read' = take(buffer, delimiter, fed_eof).data
              /\ UNCHANGED <<pending, reading>>
    /\ UNCHANGED fed_eof

\* The event is set: _wait returns, clearing _pending, and read_until
\* goes on.
wait_done ==
    /\ reading = "waiting"
    /\ pending.done
    /\ StreamFrame
    /\ pending' = NoPending
    /\ reading' = "idle"
    /\ buffer' = take(buffer, pending.parameter, fed_eof).buffer
    /\ data_read' = take(buffer, pending.parameter, fed_eof).data
    /\ UNCHANGED fed_eof

StreamNext ==
    \/ feed
    \/ feed_eof
    \/ read_until
    \/ wait_done

----------------------------------------------------------------------------
(***************************************************************************)
(* Specifications: one per component, the others standing still.           *)
(***************************************************************************)
\* The pool with any configuration.
InitPool == PoolInit /\ ServerInit /\ HpackInit /\ CodecIdle /\ StreamInit

SpecPool == InitPool /\ [][PoolNext]_vars

\* The event loop resumes a caller whose wait can end: connect when the
\* permit is free or when the timer of wait_for fires, and the callers
\* suspended in open_connection and in connection.fetch when the peer
\* answers, fails or the timer fires.
PoolFairness ==
    \A t \in Tasks :
        /\ WF_vars(ConnectReuse(t) \/ ConnectOpen(t) \/ AcquireTimeout(t))
        /\ WF_vars(OpenOk(t) \/ OpenFail(t) \/ OpenTimeout(t))
        /\ WF_vars(FetchOk(t) \/ FetchConnError(t) \/ FetchTimeout(t)
                       \/ FetchEof(t) \/ FetchError(t))

\* A manager with one permit for each endpoint that is not shut down: its
\* callers, the cleanup task and the clock.
InitOnePermit == InitPool /\ maxEndpoint = 1

OnePermitNext ==
    \/ \E t \in Tasks : StartFetch(t)
    \/ \E t \in Tasks : ConnectReuse(t)
    \/ \E t \in Tasks : ConnectOpen(t)
    \/ \E t \in Tasks : AcquireTimeout(t)
    \/ \E t \in Tasks : OpenOk(t)
    \/ \E t \in Tasks : OpenFail(t)
    \/ \E t \in Tasks : OpenTimeout(t)
    \/ \E t \in Tasks : FetchOk(t)
    \/ \E t \in Tasks : FetchConnError(t)
    \/ \E t \in Tasks : FetchTimeout(t)
    \/ \E t \in Tasks : FetchEof(t)
    \/ \E t \in Tasks : FetchError(t)
    \/ Cleanup
    \/ Tick

SpecPoolFair == InitOnePermit /\ [][OnePermitNext]_vars /\ PoolFairness

\* A server connection just accepted.
InitServer ==
    /\ ServerInit /\ PoolInit /\ maxEndpoint = 0 /\ HpackInit /\ CodecIdle
    /\ StreamInit

SpecServer == InitServer /\ [][ServerNext]_vars

\* An encoder and a decoder on equal contexts: HpackContext(limit).
InitHpack ==
    /\ \E limit \in TableLimits : HpackStart(limit, None)
    /\ PoolInit /\ maxEndpoint = 0 /\ ServerInit /\ CodecIdle /\ StreamInit

SpecHpack == InitHpack /\ [][HpackNext]_vars

\* A context of any construction: HpackContext(limit, max_size), where the
\* constructor asserts max_size is None or max_size < limit.
InitContext ==
    /\ \E limit \in TableSizes, max_size \in {None} \cup TableSizes :
         /\ max_size = None \/ max_size < limit
         /\ HpackStart(limit, max_size)
    /\ PoolInit /\ maxEndpoint = 0 /\ ServerInit /\ CodecIdle /\ StreamInit

SpecContext == InitContext /\ [][ContextNext]_vars

\* One call of _encode_int and of _decode_int on its bytes.
InitInt ==
    /\ IntInit /\ PoolInit /\ maxEndpoint = 0 /\ ServerInit /\ HpackInit
    /\ StreamInit

SpecInt == InitInt /\ [][IntNext]_vars

\* One call of huffman.encode and of huffman.decode on its bytes.
InitHuffman ==
    /\ HuffmanInit /\ PoolInit /\ maxEndpoint = 0 /\ ServerInit /\ HpackInit
    /\ StreamInit

SpecHuffman == InitHuffman /\ [][HuffmanNext]_vars

\* A StreamReader just built and its reading coroutine.
InitStream ==
    /\ StreamInit /\ PoolInit /\ maxEndpoint = 0 /\ ServerInit /\ HpackInit
    /\ CodecIdle

SpecStream == InitStream /\ [][StreamNext]_vars


----------------------------------------------------------------------------
(***************************************************************************)
(* Properties of the client pool.                                          *)
(***************************************************************************)

\* The fetches of endpoint k that hold a permit: connect has acquired it
\* and neither connect nor Http1Connection.fetch has released it.
InFlight(k) ==
    {t \in Tasks : /\ task[t].key = k
                   /\ task[t].pc \in {"opening", "fetching", "assert_failed"}}

\* The fetches of endpoint k that have been called and have not ended.
InProgress(k) == {t \in Tasks : task[t].key = k /\ task[t].pc # "idle"}

\* The connections to endpoint k that are open and not closing.
OpenConns(k) ==
    {c \in ConnIds : conn[c].open /\ conn[c].key = k /\ ~conn[c].closing}

\* C1: for every pool key, the number of fetches in flight (holding a
\* permit not yet released) never exceeds max_endpoint_connections when the
\* limit is set.
C1_InFlightBounded ==
    Bounded => \A k \in Keys : Cardinality(InFlight(k)) <= maxEndpoint

\* C1 witness: the limit is reached and another fetch waits for a permit.
C1_Witness ==
    /\ Bounded
    /\ \E k \in Keys :
         /\ Cardinality(InFlight(k)) = maxEndpoint
         /\ \E t \in Tasks : task[t].key = k /\ task[t].pc = "acquire"

\* C2: a connection is held by at most one fetch at a time, the assertion
\* of lock never fails, and connect only ever selects a connection that is
\* neither locked nor closing.
C2_NoSharedConnection ==
    /\ \A t1, t2 \in Tasks :
         (t1 # t2 /\ task[t1].pc = "fetching" /\ task[t2].pc = "fetching")
             => task[t1].conn # task[t2].conn
    /\ \A t \in Tasks : task[t].pc # "assert_failed"

C2_SelectsAvailable ==
    \A t \in Tasks :
        (task[t].pc = "acquire" /\ task'[t].pc \in {"fetching", "assert_failed"})
            => /\ ~conn[task'[t].conn].locked
               /\ ~conn[task'[t].conn].closing
               /\ conn[task'[t].conn].open

C2_ExclusiveConnection == [][C2_SelectsAvailable]_vars /\ []C2_NoSharedConnection

\* C2 witness: a fetch reuses a pooled connection while another fetch
\* holds a different connection of the same bucket.
C2_Witness ==
    \E t1, t2 \in Tasks :
        /\ t1 # t2
        /\ task[t1].pc = "fetching" /\ task[t2].pc = "fetching"
        /\ task[t1].key = task[t2].key
        /\ InMap(task[t1].conn) /\ InMap(task[t2].conn)

\* C3: whenever no fetch is in progress for a key, all
\* max_endpoint_connections permits of that key are available again.
C3_PermitsReleased ==
    Bounded => \A k \in Keys :
                  InProgress(k) = {} => semaphores[k] = maxEndpoint

\* C4: with max_endpoint_connections = N, the open (non-closing)
\* connections the manager has opened to one endpoint number at most N.
C4_OpenConnectionsBounded ==
    Bounded => \A k \in Keys : Cardinality(OpenConns(k)) <= maxEndpoint


\* Manager.fetch follows a redirection: connection.fetch has returned and
\* fetch calls itself.
Hop(t) == task[t].pc = "fetching" /\ task'[t].pc = "acquire"

RedirectStep ==
    \A t \in Tasks :
        /\ Hop(t) =>
              /\ task'[t].status \in {301, 302, 307, 308}
              /\ task'[t].location
              /\ task[t].redirects < max_redirections
              /\ task'[t].redirects = task[t].redirects + 1
        /\ (task[t].pc # "idle" /\ task'[t].pc # "idle") =>
              task'[t].redirects >= task[t].redirects

\* C13: a redirection is followed only for a status in {301, 302, 307,
\* 308} with a location and redirect_count < max_redirections; each hop
\* adds one to redirect_count, which never decreases during the call; one
\* call of fetch sends at most max_redirections + 1 requests.
C13_BoundedRedirects ==
    /\ [](\A t \in Tasks : task[t].requests <= max_redirections + 1)
    /\ [][RedirectStep]_vars

\* the request sent after max_redirections hops
C13_Witness ==
    \E t \in Tasks :
        /\ task[t].pc = "fetching"
        /\ task[t].redirects = max_redirections
        /\ task[t].requests = max_redirections + 1
        /\ task[t].status \in {301, 302, 307, 308}


\* connection.fetch ends in this step, by returning or by raising
FetchEnds(t) == task[t].pc = "fetching" /\ task'[t].pc # "fetching"

\* connection.fetch ends in this step by raising
FetchRaises(t) == FetchEnds(t) /\ task'[t].error # "none"

\* The connection of the fetch is closed after the step (a closed
\* connection that no list holds is garbage).
ClosedAfter(t) ==
    \/ conn'[task[t].conn].closing
    \/ ~conn'[task[t].conn].open

\* C14: when Http1Connection.fetch ends by raising, whatever the exception,
\* the connection is closed when the error reaches the caller.
C14_ClosedOnError ==
    [][\A t \in Tasks : FetchRaises(t) => ClosedAfter(t)]_vars

\* C15: when request.timeout elapses during Http1Connection.fetch, the
\* connection is closed, the permit is released, the locked flag is
\* cleared and ClientTimeoutError is raised; connect never selects a
\* closing connection.
TimeoutStep ==
    \A t \in Tasks :
        /\ (FetchEnds(t) /\ task'[t].error = "ClientTimeoutError") =>
              /\ ClosedAfter(t)
              /\ ~conn'[task[t].conn].locked
              /\ Bounded => semaphores'[conn[task[t].conn].key]
                               = semaphores[conn[task[t].conn].key] + 1
        /\ (task[t].pc = "acquire" /\ task'[t].pc = "fetching") =>
              ~conn[task'[t].conn].closing

C15_TimeoutCloses == [][TimeoutStep]_vars

\* a fetch has timed out on a connection of the pool, which stays in its
\* list, closing and unlocked, with the permit back
C15_Witness ==
    \E t \in Tasks, c \in ConnIds :
        /\ task[t].pc = "idle"
        /\ task[t].error = "ClientTimeoutError"
        /\ conn[c].closing
        /\ ~conn[c].locked
        /\ InMap(c)
        /\ Bounded
        /\ semaphores[conn[c].key] = maxEndpoint

\* C16: when a connection is released from a fetch, its last_activity is
\* the time of the release or the connection is closing.
C16_TouchedOrClosed ==
    [][\A t \in Tasks :
          FetchEnds(t) => \/ ClosedAfter(t)
                          \/ conn'[task[t].conn].last = now']_vars

----------------------------------------------------------------------------
(***************************************************************************)
(* Properties of the server connection.                                    *)
(***************************************************************************)
\* The responses with status >= 200 written in this call of run.
FinalResponses == {i \in 1..Len(sent) : sent[i].status >= 200}

\* C5: within one call of Http1Transport.run at most one response with a
\* status >= 200 is written, whatever the handler does and whichever except
\* clause runs; a 1xx response leaves self.response unset, so it neither
\* counts nor stands in the way of the final response.
C5_AtMostOneFinalResponse ==
    /\ Cardinality(FinalResponses) <= 1
    /\ (response # 0) <=> (FinalResponses # {})

\* The handler wrote 100 then 200 and raised; the 500 of the except clause
\* was refused and nothing more was written.
C5_Witness ==
    /\ spc = "raised"
    /\ ~lost
    /\ exc = Exception
    /\ Len(sent) = 2
    /\ sent[1].status = 100
    /\ sent[2].status = 200
    /\ response = 200

\* C6: the next header block is read only when the previous exchange has
\* written its response and nothing of the previous request's body is left
\* unread in the reader.
C6_SerialExchanges ==
    (spc = "loop" /\ keep_alive /\ nread > 0) =>
        /\ FinalResponses # {}
        /\ inbuf = <<>>

\* C7: once a request is parsed, keep_alive is true for HTTP/1.1 unless
\* connection contains close and false for HTTP/1.0 unless connection
\* contains keep-alive; the loop starts a next exchange only with the flag
\* true and closes after a finished exchange only with the flag false.
C7_KeepAliveFlag ==
    /\ (spc = "create_body_reader" /\ request.version = "1.1") =>
          (keep_alive <=> ~Contains(request.headers["connection"], "close"))
    /\ (spc = "create_body_reader" /\ request.version = "1.0") =>
          (keep_alive <=> Contains(request.headers["connection"], "keep-alive"))
    /\ spc = "receive" => keep_alive
    /\ (spc = "closed" /\ exc = NoExc) => ~keep_alive

----------------------------------------------------------------------------
(***************************************************************************)
(* Properties of HPACK.                                                    *)
(***************************************************************************)
\* C8: an encoder and a decoder that started on equal contexts have equal
\* dynamic tables (same entries, same order, same size) once the decoder
\* has decoded the bytes of a block, whatever the policies said and
\* whatever the insertions evicted.
C8_TablesEqual ==
    wire = <<>> =>
        /\ encoder.dynamic_table = decoder.dynamic_table
        /\ encoder.size = decoder.size

\* A block of MaxFields fields has been decoded; its insertions dropped
\* an entry and left one in the table.
C8_Witness ==
    /\ wire = <<>>
    /\ Len(decoded) = MaxFields
    /\ evicted > 0
    /\ encoder.dynamic_table # <<>>
    /\ decoder.dynamic_table # <<>>

\* C9: the decoder yields exactly the (name, value) pairs given to the
\* encoder, in order, for every answer of the indexing policy and of the
\* huffman policy, fields found by name only included.
C9_RoundTrip ==
    wire = <<>> => (decoded = headers /\ raised = "none")

\* The size of the entries of a dynamic table.
RECURSIVE table_size(_)
table_size(table) ==
    IF table = <<>> THEN 0
    ELSE entry_size(Head(table)) + table_size(Tail(table))

\* HpackContext: the size is the size of the entries and fits max_size,
\* which fits limit.
ContextInvariant(ctx) ==
    /\ ctx.size = table_size(ctx.dynamic_table)
    /\ ctx.size <= ctx.max_size
    /\ ctx.max_size <= ctx.limit

\* A set_max_size that raises leaves the context as it was.
RejectedUnchanged == raised' = "ValueError" => encoder' = encoder

\* C10: after construction and after any add, set_max_size or set_limit,
\* current_size <= max_size <= limit; a set_max_size above limit raises
\* ValueError and changes neither max_size nor the table.
C10_ContextBounds ==
    /\ []ContextInvariant(encoder)
    /\ [][RejectedUnchanged]_vars

\* A set_max_size has just been rejected on a context whose max_size was
\* lowered below limit and that still holds an entry.
C10_Witness ==
    /\ raised = "ValueError"
    /\ encoder.max_size < encoder.limit
    /\ encoder.dynamic_table # <<>>
    /\ encoder.size <= encoder.max_size

(***************************************************************************)
(* Properties of the coding functions.                                     *)
(***************************************************************************)
\* C11: the integer coding round-trips: for every prefix length 1..7,
\* every bit pattern above the prefix and every integer tried, _decode_int
\* on the bytes of _encode_int returns the integer, and the iterator is
\* left at the first byte after them.
C11_IntRoundTrip ==
    cpc = "decoded" =>
        /\ cout.ok
        /\ cout.value = cin.value
        /\ cout.pos = Len(cdata) + 1

\* an integer of four bytes, decoded with bytes following it
C11_Witness ==
    /\ cpc = "decoded"
    /\ Len(cdata) = 4
    /\ cin.rest # <<>>
    /\ cin.bit_pattern # 0
    /\ cout.value = cin.value

\* the bits huffman.encode added after the codes of the bytes
Padding == SubSeq(bin_bytes(cdata), Len(bin_raw(cin.string)) + 1, 8 * Len(cdata))

\* C12: huffman.decode(huffman.encode(s)) = s for an ASCII byte string s;
\* the bytes are the codes of s followed by fewer than 8 bits, all ones,
\* and decoding yields no symbol for them.
C12_HuffmanRoundTrip ==
    /\ cpc = "decoded" => cout = cin.string
    /\ cpc \in {"encoded", "decoded"} =>
          /\ SubSeq(bin_bytes(cdata), 1, Len(bin_raw(cin.string))) = bin_raw(cin.string)
          /\ Len(Padding) < 8
          /\ \A i \in 1..Len(Padding) : Padding[i] = 1

\* a string of several bytes whose codes end seven bits short of a byte
C12_Witness ==
    /\ cpc = "decoded"
    /\ Len(cin.string) >= 2
    /\ Len(Padding) = 7
    /\ cout = cin.string

----------------------------------------------------------------------------
(***************************************************************************)
(* Properties of the framing of request bodies.                            *)
(***************************************************************************)
\* the values of the header lines of that name, as the peer wrote them
RECURSIVE LinesNamed(_, _)
LinesNamed(lines, name) ==
    IF lines = <<>> THEN <<>>
    ELSE (IF Head(lines).name = name THEN <<Head(lines).value>> ELSE <<>>)
         \o LinesNamed(Tail(lines), name)

\* the literal 0, or a decimal number without leading zero
DecimalLength(v) ==
    /\ v # <<>>
    /\ \A i \in 1..Len(v) : IsDigit(v[i])
    /\ v = <<"0">> \/ v[1] # "0"

\* receive_request has read a well formed header block in this exchange
HeaderRead == header.set /\ header.line_ok /\ header.headers_ok

\* the header block has no transfer-encoding line, in either spelling
NoTransferEncoding ==
    /\ LinesNamed(header.lines, "transfer-encoding") = <<>>
    /\ LinesNamed(header.lines, "transfert-encoding") = <<>>

\* receive_request returned the request / raised HttpError(400)
Accepted == request.set

Rejected400 == ~request.set /\ (spc = "except" => exc = HttpError(400))

\* C17: without transfer-encoding, a single content-length that is the
\* literal 0 or a decimal number without leading zero is accepted and the
\* exchange proceeds; one that occurs more than once, has a leading zero or
\* contains a non-digit is rejected with 400.
C17_ContentLengthValidation ==
    (HeaderRead /\ NoTransferEncoding /\ spc # "receive") =>
        LET cl == LinesNamed(header.lines, "content-length")
        IN  /\ (Len(cl) = 1 /\ DecimalLength(cl[1])) => Accepted
            /\ (Len(cl) > 1 \/ (Len(cl) = 1 /\ ~DecimalLength(cl[1])))
                   => Rejected400

\* the request carries a transfer-encoding header
HasTransferEncoding == LinesNamed(header.lines, "transfer-encoding") # <<>>

\* chunked is the final encoding of the transfer-encoding header
ChunkedIsFinal ==
    LET te == header_get(header.lines, "transfer-encoding")
    IN  te[Len(te)] = <<"chunked">>

\* create_body_reader has run in this exchange
ReaderSelected == spc \notin {"receive", "create_body_reader"}

\* C18: when a request carries a transfer-encoding header, any
\* content-length is dropped; if chunked is the final encoding the chunked
\* body reader is selected for the exchange; if it is not, the request is
\* answered with 400 and keep-alive is set to false.
C18_TransferEncoding ==
    (HeaderRead /\ HasTransferEncoding /\ spc # "receive") =>
        IF ChunkedIsFinal
        THEN /\ Accepted
             /\ LinesNamed(header.lines, "content-length") # <<>>
                    => request.headers["content-length"] = <<>>
             /\ ReaderSelected => body_reader.kind = "chunked"
        ELSE Rejected400 /\ ~keep_alive

\* ChunkedBodyReader has terminated after the zero-size chunk
ChunkedTerminated == body_reader.kind = "chunked" /\ body_reader.eof

\* C19: when ChunkedBodyReader terminates after the zero-size chunk it has
\* consumed every framing byte of the chunked body, the blank line that ends
\* the trailer section included, so that the next read starts at the first
\* byte of the next message.
C19_ChunkedConsumesFraming ==
    ChunkedTerminated => inbuf = <<>>

\* BufferedBodyReader.__anext__ has raised StopAsyncIteration
BufferedTerminated == body_reader.kind = "buffered" /\ body_reader.eof

\* C20: BufferedBodyReader terminates normally only after the blocks it
\* emitted total exactly body_size bytes (is_complete true); an end of
\* stream before that fails with EOFError instead.
C20_BufferedComplete ==
    BufferedTerminated => is_complete(body_reader)

----------------------------------------------------------------------------
(***************************************************************************)
(* Properties of the handling of a request.                                *)
(***************************************************************************)
\* The names of the header fields of a response written by send_response:
\* date, server and connection, the fields of the headers given to it, and
\* content-length.  The headers of the 405 error are Headers(allowed=...).
field_names(response_headers) ==
    {"date", "server", "connection", "content-length"}
        \cup (IF response_headers.allowed THEN {"allowed"} ELSE {})

\* C21: when the route is found and the method is not among the handler's
\* methods, the answer is a 405 with an allow header that lists them, and
\* the handler is neither instantiated nor invoked.
C21_MethodNotAllowed ==
    \A i \in 1..Len(sent) :
        sent[i].status = 405 =>
            /\ "allow" \in field_names(sent[i].headers)
            /\ hsteps = 0

\* the request has an expect header that contains 100-continue
ExpectsContinue ==
    request.set /\ Contains(request.headers["expect"], "100-continue")

\* the method handler is about to be invoked
HandlerInvoked == spc = "handler" /\ hsteps = 0

\* C22: for a request whose expect header contains 100-continue, when
\* can_continue has sent no response the handler method is invoked only
\* after a 100 interim response was written (can_continue returned true;
\* had it returned false, a 417 is sent and the method is not invoked).
C22_ExpectContinue ==
    (ExpectsContinue /\ HandlerInvoked /\ response = 0) =>
        /\ sent # <<>>
        /\ sent[Len(sent)].status = 100

\* an exception that is neither HttpError nor ConnectionError has left
\* handle_request after the body reader was created
HandlerFailed ==
    /\ spc = "except"
    /\ exc.kind = "Exception"
    /\ request.set
    /\ body_reader.kind # "none"

\* C23: whenever the handler raises an exception other than HttpError or
\* ConnectionError, at whatever point of its execution, the except clause
\* of run writes a 500 response and no exception is left to escape the
\* connection loop (the connection not being lost meanwhile).
C23_HandlerErrorRecovered ==
    [][(HandlerFailed /\ spc' = "cleanup" /\ ~lost') =>
          /\ exc' = NoExc
          /\ sent' # <<>>
          /\ sent'[Len(sent')].status = 500]_vars

\* a response written in this exchange says connection: close
SaidClose == \E i \in 1..Len(sent) : sent[i].headers.connection = "close"

\* C24: when send_response is called with headers that carry connection:
\* close, keep_alive becomes false, so that the connection is closed after
\* the exchange instead of reading another request.
C24_UserConnectionClose ==
    (spc = "loop" /\ SaidClose) => ~keep_alive

\* the 408 response was written in this exchange
Sent408 == \E i \in 1..Len(sent) : sent[i].status = 408

\* C25: when no complete header block arrives within the read timeout,
\* keep_alive is set to false, the 408 response carries connection: close,
\* no further request is read and the connection is closed.
C25_Timeout408 ==
    /\ []((spc = "except" /\ exc = HttpError(408)) => ~keep_alive)
    /\ [](\A i \in 1..Len(sent) :
             sent[i].status = 408 =>
                 sent[i].headers.connection = "close" /\ ~keep_alive)
    /\ [][(Sent408 /\ spc = "loop") => spc' = "closed"]_vars

\* the 408 was sent and the connection closed
C25_Witness == Sent408 /\ spc = "closed"

\* C26: when the connection is lost at any point of an exchange, the
\* pipeline loop terminates with the connection closed: no exception
\* leaves Http1Connection.run.
C26_ConnectionErrorCloses ==
    lost => spc # "crashed"

----------------------------------------------------------------------------
(***************************************************************************)
(* Properties of the decoder's dynamic table.                              *)
(***************************************************************************)
\* self._context.add for the fields of the block written with incremental
\* indexing, in the order of the block
RECURSIVE add_incremental(_, _, _)
add_incremental(ctx, fs, ks) ==
    IF fs = <<>> THEN ctx
    ELSE add_incremental(IF Head(ks) = "incremental" THEN add(ctx, Head(fs))
                         ELSE ctx,
                         Tail(fs), Tail(ks))

\* HpackDecoder.decode has consumed the block without raising
DecodeStep == wire # <<>> /\ wire' = <<>> /\ raised' = "none"

\* C27: the decoder inserts a field into the dynamic table only when it
\* decodes the incremental indexing representation: after a block its
\* table is the one before with the fields of that representation added,
\* and a block without any leaves it unchanged.
C27_InsertOnlyIncremental ==
    [][DecodeStep =>
          /\ decoder'.dynamic_table
                = add_incremental(decoder, headers, kinds).dynamic_table
          /\ (\A i \in 1..Len(kinds) : kinds[i] # "incremental")
                => decoder'.dynamic_table = decoder.dynamic_table]_vars

\* a block with a never indexed field and a field with incremental indexing
\* has been decoded into a table that held an entry
C27_Witness ==
    /\ wire = <<>>
    /\ raised = "none"
    /\ Len(decoded) = MaxFields
    /\ \E i \in 1..Len(kinds) : kinds[i] = "never indexed"
    /\ \E i \in 1..Len(kinds) : kinds[i] = "incremental"
    /\ Len(decoder.dynamic_table) > 1

----------------------------------------------------------------------------
(***************************************************************************)
(* Properties of the parsing of header lines.                              *)
(***************************************************************************)
\* the header fields that receive_request does not rewrite
KeptNames == {"connection", "expect", "except"}

\* C28: Headers.parse_line trims the leading and trailing whitespace of
\* the field value of every accepted line, so that the value of a line
\* "name: value" is found, trimmed, among the values of the field.
C28_ParseLineTrims ==
    request.set =>
        \A i \in 1..Len(header.lines) :
            header.lines[i].name \in KeptNames =>
                \E j \in 1..Len(request.headers[header.lines[i].name]) :
                    request.headers[header.lines[i].name][j]
                        = strip(header.lines[i].value)

\* ---------------------------------------------------------------------
\* Properties of a failed opening
\* ---------------------------------------------------------------------

\* The step in which the opening of task t fails with a transport error:
\* the task leaves "opening" with an error that is no timeout.
OpenFailed(t) ==
    /\ task[t].pc = "opening"
    /\ task'[t].pc = "idle"
    /\ task'[t].error # "ClientTimeoutError"

\* C29: when opening a new connection fails with a transport error, the
\* permit acquired for the attempt is released, fetch raises
\* ClientConnectionError, with a bounded and with an unbounded pool, and
\* no connection is added to the pool.
C29_OpenFailReleases ==
    [][\A t \in Tasks :
          OpenFailed(t) =>
              /\ task'[t].error = "ClientConnectionError"
              /\ Bounded =>
                     semaphores'[task[t].key] = semaphores[task[t].key] + 1
              /\ buckets' = buckets
              /\ connections' = connections
              /\ conn' = conn]_vars

\* ---------------------------------------------------------------------
\* Properties of the shutdown of the pool
\* ---------------------------------------------------------------------

\* The connections of the lists of the map
Pooled == {c \in ConnIds : InMap(c)}

\* The state a call of close leaves: the cleanup task cancelled, every
\* pooled connection closing.
ShutDown == cleanup_task = "cancelled" /\ \A c \in Pooled : is_closing(c)

CloseStep == shutdown'.calls = shutdown.calls + 1

\* C30: after ConnectionManager.close() the cleanup task is cancelled and
\* every connection of every bucket of the pool is closing; close raises
\* nothing, and called again on what a call left it closes no connection a
\* second time and leaves the state unchanged.
C30_CloseIdempotent ==
    [][CloseStep =>
          /\ ShutDown'
          /\ shutdown'.error = "none"
          /\ \A c \in ConnIds : is_closing(c) => conn'[c] = conn[c]
          /\ ShutDown =>
                 UNCHANGED <<maxEndpoint, semaphores, connections, buckets,
                             conn, now, task, cleanup_task>>]_vars

\* close was called twice on a pool that holds connections, one of them
\* locked by a fetch in progress.
C30_Witness ==
    /\ shutdown.calls = MaxCloses
    /\ \E c \in Pooled : conn[c].locked
    /\ \E c \in Pooled : ~conn[c].locked
    /\ ShutDown

\* ---------------------------------------------------------------------
\* Properties of the known redirections
\* ---------------------------------------------------------------------

\* C31: permanent_redirects gains the entry url -> location exactly for
\* the followed redirections whose status is 301 or 308, and none for 302
\* or 307; nothing else writes it.
C31_PermanentRedirects ==
    [][\A t \in Tasks :
          /\ (Hop(t) /\ task'[t].status \in {301, 308}) =>
                permanent_redirects'[task[t].key] = task'[t].key
          /\ (Hop(t) /\ task'[t].status \in {302, 307}) =>
                permanent_redirects' = permanent_redirects]_vars

\* ---------------------------------------------------------------------
\* Properties of the cleanup task
\* ---------------------------------------------------------------------

\* A pass of _cleanup that changes the pool: no caller moves, close is not
\* called, the clock stands.
CleanupStep ==
    /\ task' = task
    /\ shutdown' = shutdown
    /\ now' = now
    /\ <<connections, buckets, conn>>' # <<connections, buckets, conn>>

\* now - last_activity > keep_alive_timeout
Expired(c) == now - conn[c].last > keep_alive_timeout

\* C32: after a pass of the cleanup task every pooled connection that was
\* idle for more than keep_alive_timeout at its start has been closed, no
\* closing connection remains in a list of the map, the connections that
\* were neither expired nor closing are untouched and stay listed, and no
\* key of the map is left with an empty list.
C32_CleanupPass ==
    [][CleanupStep =>
          /\ \A c \in ConnIds :
                (InMap(c) /\ Expired(c)) => (conn'[c].closing \/ ~conn'[c].open)
          /\ \A k \in Keys :
                connections'[k] # 0 =>
                    /\ buckets'[connections'[k]] # <<>>
                    /\ \A i \in 1..Len(buckets'[connections'[k]]) :
                          ~conn'[buckets'[connections'[k]][i]].closing
          /\ \A c \in ConnIds :
                (InMap(c) /\ ~Expired(c) /\ ~is_closing(c)) =>
                    /\ conn'[c] = conn[c]
                    /\ \E k \in Keys :
                          /\ connections'[k] = connections[k]
                          /\ \E i \in 1..Len(buckets'[connections'[k]]) :
                                buckets'[connections'[k]][i] = c]_vars

\* a pass has closed the expired connection of a fetch in progress and
\* taken it off its list, and left the other connection, touched since,
\* in the list
C32_Witness ==
    \E t \in Tasks, c \in ConnIds :
        /\ task[t].pc = "fetching"
        /\ conn[task[t].conn].closing
        /\ ~InMap(task[t].conn)
        /\ shutdown.calls = 0
        /\ InMap(c)
        /\ ~conn[c].closing
        /\ conn[c].last = now

\* ---------------------------------------------------------------------
\* Properties of the choice of a connection
\* ---------------------------------------------------------------------

\* The connections listed under key k that are neither closing nor locked
Available(k) ==
    {c \in ConnIds :
        /\ connections[k] # 0
        /\ \E i \in 1..Len(buckets[connections[k]]) : buckets[connections[k]][i] = c
        /\ ~conn[c].closing
        /\ ~conn[c].locked}

\* C33: when connect finds an available connection for the key it opens
\* no new connection and locks the available connection of smallest
\* last_activity; it opens one only when no connection of the list is
\* available.
C33_ReuseLeastActive ==
    [][\A t \in Tasks :
          /\ (task[t].pc = "acquire" /\ task'[t].pc = "fetching") =>
                /\ task'[t].conn \in Available(task[t].key)
                /\ \A c \in Available(task[t].key) :
                      conn[task'[t].conn].last <= conn[c].last
                /\ conn'[task'[t].conn].locked
                /\ \A c \in ConnIds : conn'[c].open = conn[c].open
          /\ (task[t].pc = "acquire" /\ task'[t].pc = "opening") =>
                Available(task[t].key) = {}
          /\ (task[t].pc = "acquire" /\ Available(task[t].key) # {}) =>
                task'[t].pc # "opening"]_vars

\* a fetch runs on the second connection of the list while the first,
\* active more recently than the second was, is available
C33_Witness ==
    \E t \in Tasks, k \in Keys :
        /\ task[t].pc = "fetching"
        /\ task[t].key = k
        /\ connections[k] # 0
        /\ Len(buckets[connections[k]]) = 2
        /\ buckets[connections[k]][2] = task[t].conn
        /\ buckets[connections[k]][1] \in Available(k)
        /\ conn[buckets[connections[k]][1]].last = MaxTime
        /\ \A t2 \in Tasks : t2 # t => task[t2].pc = "idle"

\* ---------------------------------------------------------------------
\* Properties of the order of the dynamic table
\* ---------------------------------------------------------------------

\* An add: the table changes under the same max_size and limit.
AddStep ==
    /\ encoder'.max_size = encoder.max_size
    /\ encoder'.limit = encoder.limit
    /\ encoder'.dynamic_table # encoder.dynamic_table

\* kept is what eviction leaves of table under max_size: entries are
\* dropped from the back only, and no more of them than needed.
Kept(table, kept, max_size) ==
    /\ Len(kept) <= Len(table)
    /\ kept = SubSeq(table, 1, Len(kept))
    /\ table_size(kept) <= max_size
    /\ Len(kept) < Len(table) =>
           table_size(SubSeq(table, 1, Len(kept) + 1)) > max_size

\* C34: index 62 addresses the entry inserted last and the following
\* indices the older entries, in order; eviction drops entries from the
\* back only and stops as soon as size <= max_size; adding an entry larger
\* than max_size leaves the dynamic table empty.
C34_NewestFirst ==
    [][/\ AddStep =>
            \E f \in HeaderFields :
               /\ Kept(<<f>> \o encoder.dynamic_table, encoder'.dynamic_table,
                       encoder.max_size)
               /\ entry_size(f) > encoder.max_size => encoder'.dynamic_table = <<>>
               /\ encoder'.dynamic_table # <<>> =>
                     /\ getitem(encoder', 62) = f
                     /\ \A i \in 2..Len(encoder'.dynamic_table) :
                           getitem(encoder', 61 + i) = getitem(encoder, 60 + i)
       /\ ~AddStep =>
            Kept(encoder.dynamic_table, encoder'.dynamic_table,
                 encoder'.max_size)]_vars

\* a table of two different entries, the older one at index 63, under a
\* max_size that a third entry would exceed
C34_Witness ==
    /\ Len(encoder.dynamic_table) = 2
    /\ getitem(encoder, 62) # getitem(encoder, 63)
    /\ encoder.size + entry_size(<<"x", "1">>) > encoder.max_size
    /\ raised = "none"

\* C35: the cleanup task never closes a connection that is locked: a
\* connection on which a fetch is in progress is not closed by a pass,
\* however long ago it was touched.
C35_LockedNotReaped ==
    [][CleanupStep =>
          \A t \in Tasks :
             (task[t].pc = "fetching" /\ ~conn[task[t].conn].closing) =>
                 ~conn'[task[t].conn].closing]_vars

\* ---------------------------------------------------------------------
\* Properties of the lists of the map
\* ---------------------------------------------------------------------

\* C36: every connection the manager has opened and that is not closing
\* is listed in the list the map holds under its key, whatever the
\* interleaving of connect with the cleanup task.
C36_OpenConnectionsListed ==
    \A c \in ConnIds :
        (conn[c].open /\ ~conn[c].closing) =>
            /\ connections[conn[c].key] # 0
            /\ \E i \in 1..Len(buckets[connections[conn[c].key]]) :
                  buckets[connections[conn[c].key]][i] = c

\* ---------------------------------------------------------------------
\* Properties of a redirection under a bounded pool
\* ---------------------------------------------------------------------

\* The step in which fetch calls itself: the permit of the hop that ends
\* is back, its connection is unlocked (or gone), and the permit can be
\* acquired for the next hop.
HopReleases ==
    \A t \in Tasks :
        Hop(t) =>
            /\ Bounded => /\ semaphores'[task[t].key] = semaphores[task[t].key] + 1
                          /\ semaphores'[task'[t].key] > 0
            /\ ~conn'[task[t].conn].locked

\* The fetch of t is at the acquire of a hop that follows a redirection.
Redirected(t) == task[t].pc = "acquire" /\ task[t].redirects > 0

RunEnded == spc \in {"closed", "crashed"}

\* The writer is closing: self.close() was called, or the connection was
\* lost and the transport closed by the loop.
WriterClosing == spc = "closed" \/ lost

\* C38: whenever Http1Connection.run ends, for whatever reason, the
\* writer of the connection has been closed.
C38_LoopEndCloses == RunEnded => WriterClosing

\* ---------------------------------------------------------------------
\* Properties of the framing after an error response
\* ---------------------------------------------------------------------

ErrorStatuses == {400, 404, 405, 417, 500}

\* The exchange is over, it was answered with an error and the loop goes
\* on to the next request.
KeptAliveAfterError ==
    /\ spc = "loop"
    /\ keep_alive
    /\ \E i \in 1..Len(sent) : sent[i].status \in ErrorStatuses

\* C39: whenever the connection is kept alive after a request was
\* answered with an error, every byte of the body of that request has
\* been consumed before the next request line is read.
C39_FramingAfterError == KeptAliveAfterError => inbuf = <<>>

\* ---------------------------------------------------------------------
\* Properties of the wake-up of a pending read
\* ---------------------------------------------------------------------

\* A call of read_until waits and its event is not set.
LeftWaiting == reading = "waiting" /\ pending.set /\ ~pending.done

\* C40: a pending read_until is never left waiting while its delimiter is
\* in the buffer: the feed after which the buffer holds the delimiter sets
\* the event, however the delimiter is split over the feeds and whatever
\* follows it in the same feed.
C40_ReadUntilWakes == LeftWaiting => ~in(pending.parameter, buffer)

=============================================================================
